---- MODULE Spec2Model ----
(***************************************************************************)
(* The circuit graph of sunscreen_circuit (src/sunscreen_circuit/src/lib.rs)*)
(* with its builders, its mutation-tolerant traversal, the transform list   *)
(* and prune.                                                               *)
(*                                                                          *)
(* Handles are 0-based as in the source; the slot of handle h is            *)
(* nodes[h + 1].  The graph is petgraph's StableGraph: a slot table with a  *)
(* LIFO free list (a removed slot is the first one reused by add_node), and *)
(* per-node edge lists that yield the most recently added edge first.       *)
(***************************************************************************)
EXTENDS Naturals, Integers, Sequences, FiniteSets, TLC

(* ------------------------------ bounds ---------------------------------- *)

\* Largest number of slots the builder phase fills.
MaxBuild == 3

\* Largest number of slots of a circuit handed to a traversal whose callbacks
\* append nodes.
MaxSeed == 2

\* Largest number of slots of the node table during a traversal.
MaxNodes == 4

\* Longest transform list a callback returns.
MaxBatch == 2

\* Longest keep list handed to prune.
MaxKeep == 2

\* The most transforms pushed onto a TransformList handed to apply directly.
MaxList == 2

(* ------------------------------ data model ------------------------------ *)

\* lib.rs:64-177
SchemeType == {"Bfv", "Ckks", "Tfhe"}

\* lib.rs:206-221
EdgeInfo == {"LeftOperand", "RightOperand", "UnaryOperand"}

\* Operation (tag + payload); id is 0 for the tags without payload.
Operation(tag, id) == [tag |-> tag, id |-> id]

\* A vacant slot of the StableGraph node table (weight None).
Vacant == [tag |-> "Vacant", id |-> 0]

\* petgraph Direction
Incoming == "Incoming"
Outgoing == "Outgoing"

\* Circuit::new: the scheme tag and an empty StableGraph.
\* nodes: slot table; free: the free list, head first; edges: in insertion order.
NewCircuit(scheme) ==
    [scheme |-> scheme, nodes |-> <<>>, free |-> <<>>, edges |-> <<>>]

(* ------------------------------ sequences ------------------------------- *)

Range(s) == {s[i] : i \in 1..Len(s)}

Reverse(s) == [i \in 1..Len(s) |-> s[Len(s) + 1 - i]]

Last(s) == s[Len(s)]

Front(s) == SubSeq(s, 1, Len(s) - 1)

\* The members of a finite set of integers, ascending.
RECURSIVE Ascending(_)
Ascending(S) ==
    IF S = {} THEN <<>>
    ELSE LET m == CHOOSE x \in S : \A y \in S : x <= y
         IN <<m>> \o Ascending(S \ {m})

(* ------------------------------ StableGraph ----------------------------- *)

\* StableGraph::contains_node: in range and not vacant.
contains_node(g, a) ==
    /\ a \in 0..(Len(g.nodes) - 1)
    /\ g.nodes[a + 1] # Vacant

\* The live handles.
NodeSet(g) == {a \in 0..(Len(g.nodes) - 1) : g.nodes[a + 1] # Vacant}

\* StableGraph::node_identifiers / node_indices: live handles in table order.
node_identifiers(g) == Ascending(NodeSet(g))

\* StableGraph::add_node: reuse the head of the free list, else grow the table.
add_node(g, weight) ==
    IF g.free # <<>>
    THEN [g |-> [g EXCEPT !.nodes[Head(g.free) + 1] = weight, !.free = Tail(g.free)],
          index |-> Head(g.free)]
    ELSE [g |-> [g EXCEPT !.nodes = Append(g.nodes, weight)],
          index |-> Len(g.nodes)]

\* find_edge answering for an edge between a and b in either direction.
find_edge_undirected(g, a, b) ==
    LET hits == {i \in 1..Len(g.edges) :
                    \/ g.edges[i].source = a /\ g.edges[i].target = b
                    \/ g.edges[i].source = b /\ g.edges[i].target = a}
    IN IF hits = {} THEN 0 ELSE CHOOSE i \in hits : \A j \in hits : j <= i

\* StableGraph::find_edge: the position in edges of an edge a -> b, 0 when none.
find_edge(g, a, b) ==
    LET hits == {i \in 1..Len(g.edges) :
                    g.edges[i].source = a /\ g.edges[i].target = b}
    IN IF hits = {} THEN 0 ELSE CHOOSE i \in hits : \A j \in hits : j <= i

\* update_edge with the endpoints of a new edge exchanged.
update_edge_reversed(g, a, b, weight) ==
    IF contains_node(g, a) /\ contains_node(g, b)
    THEN [g |-> [g EXCEPT !.edges =
                    Append(g.edges, [source |-> b, target |-> a, weight |-> weight])],
          panicked |-> FALSE]
    ELSE [g |-> g, panicked |-> TRUE]

\* update_edge as add_edge: a new edge whether or not a -> b is there already.
update_edge_adding(g, a, b, weight) ==
    IF contains_node(g, a) /\ contains_node(g, b)
    THEN [g |-> [g EXCEPT !.edges =
                    Append(g.edges, [source |-> a, target |-> b, weight |-> weight])],
          panicked |-> FALSE]
    ELSE [g |-> g, panicked |-> TRUE]

\* StableGraph::update_edge: replace the weight of an existing edge a -> b, else
\* add_edge, which panics when an endpoint is not a node of the graph.
update_edge(g, a, b, weight) ==
    LET e == find_edge(g, a, b) IN
    IF e # 0
    THEN [g |-> [g EXCEPT !.edges[e].weight = weight], panicked |-> FALSE]
    ELSE IF contains_node(g, a) /\ contains_node(g, b)
    THEN [g |-> [g EXCEPT !.edges =
                    Append(g.edges, [source |-> a, target |-> b, weight |-> weight])],
          panicked |-> FALSE]
    ELSE [g |-> g, panicked |-> TRUE]

\* StableGraph::remove_edge of the edge at position e.
remove_edge(g, e) ==
    [g EXCEPT !.edges = SubSeq(g.edges, 1, e - 1) \o SubSeq(g.edges, e + 1, Len(g.edges))]

\* StableGraph::neighbors_directed: the other endpoints of a's edges in direction
\* dir, most recently added edge first; nothing for a vacant handle.
neighbors_directed(g, a, dir) ==
    LET es == SelectSeq(g.edges,
                LAMBDA e : IF dir = Outgoing THEN e.source = a ELSE e.target = a)
    IN [i \in 1..Len(es) |->
          IF dir = Outgoing THEN es[Len(es) + 1 - i].target
                            ELSE es[Len(es) + 1 - i].source]

(* ------------------------------ builders -------------------------------- *)

\* Circuit::append_0_input_node
append_0_input_node(ir, operation) ==
    LET n == add_node(ir, operation)
    IN [ir |-> n.g, new_node |-> n.index, panicked |-> FALSE]

\* Circuit::append_1_input_node
append_1_input_node(ir, operation, x) ==
    LET n == add_node(ir, operation)
        e == update_edge(n.g, x, n.index, "UnaryOperand")
    IN [ir |-> e.g, new_node |-> n.index, panicked |-> e.panicked]

\* Circuit::append_2_input_node: the second update_edge is not reached when the
\* first one panics.
append_2_input_node(ir, operation, x, y) ==
    LET n == add_node(ir, operation)
        l == update_edge(n.g, x, n.index, "LeftOperand")
        r == update_edge(l.g, y, n.index, "RightOperand")
    IN IF l.panicked
       THEN [ir |-> l.g, new_node |-> n.index, panicked |-> TRUE]
       ELSE [ir |-> r.g, new_node |-> n.index, panicked |-> r.panicked]

\* remove_node as Graph::remove_node does it (swap_remove): the last node of
\* the table takes the handle of the removed one.
remove_node_swapping(ir, id) ==
    IF ~contains_node(ir, id) THEN ir
    ELSE LET last == Len(ir.nodes) - 1
             moved(h) == IF h = last THEN id ELSE h
             kept == SelectSeq(ir.edges, LAMBDA e : e.source # id /\ e.target # id)
         IN [ir EXCEPT
               !.nodes = [i \in 1..last |-> IF i = id + 1 THEN ir.nodes[last + 1]
                                                          ELSE ir.nodes[i]],
               !.free = SelectSeq(ir.free, LAMBDA f : f < last),
               !.edges = [i \in 1..Len(kept) |->
                            [source |-> moved(kept[i].source),
                             target |-> moved(kept[i].target),
                             weight |-> kept[i].weight]]]

\* Circuit::remove_node (StableGraph::remove_node): the node and every incident
\* edge go, the slot heads the free list; no effect on a handle that is no node.
remove_node(ir, id) ==
    IF ~contains_node(ir, id) THEN ir
    ELSE [ir EXCEPT
            !.nodes[id + 1] = Vacant,
            !.free = <<id>> \o ir.free,
            !.edges = SelectSeq(ir.edges, LAMBDA e : e.source # id /\ e.target # id)]

\* The pub builders of Circuit (lib.rs:301-376), each one call of the helper of
\* its arity with its Operation.
append_negate(ir, x) == append_1_input_node(ir, Operation("Negate", 0), x)

append_multiply(ir, x, y) == append_2_input_node(ir, Operation("Multiply", 0), x, y)

append_add(ir, x, y) == append_2_input_node(ir, Operation("Add", 0), x, y)

append_sub(ir, x, y) == append_2_input_node(ir, Operation("Sub", 0), x, y)

append_input_ciphertext(ir, id) ==
    append_0_input_node(ir, Operation("InputCiphertext", id))

append_input_literal(ir, value) == append_0_input_node(ir, Operation("Literal", value))

append_output_ciphertext(ir, x) ==
    append_1_input_node(ir, Operation("OutputCiphertext", 0), x)

append_relinearize(ir, x) == append_1_input_node(ir, Operation("Relinearize", 0), x)

append_rotate_left(ir, x, y) == append_2_input_node(ir, Operation("ShiftLeft", 0), x, y)

append_rotate_right(ir, x, y) == append_2_input_node(ir, Operation("ShiftRight", 0), x, y)

(* ------------------------------ transform list -------------------------- *)

\* TransformNodeIndex: NodeIndex(h) or DeferredIndex(j).
NodeIndex(h) == [deferred |-> FALSE, i |-> h]

DeferredIndex(j) == [deferred |-> TRUE, i |-> j]

\* IRTransform: one record shape for the ten variants; the fields a variant does
\* not have hold NodeIndex(0), id 0 and "UnaryOperand".
AppendAdd(x, y) ==
    [kind |-> "AppendAdd", x |-> x, y |-> y, id |-> 0, weight |-> "UnaryOperand"]

AppendMultiply(x, y) ==
    [kind |-> "AppendMultiply", x |-> x, y |-> y, id |-> 0, weight |-> "UnaryOperand"]

AppendInputCiphertext(id) ==
    [kind |-> "AppendInputCiphertext", x |-> NodeIndex(0), y |-> NodeIndex(0),
     id |-> id, weight |-> "UnaryOperand"]

AppendOutputCiphertext(x) ==
    [kind |-> "AppendOutputCiphertext", x |-> x, y |-> NodeIndex(0), id |-> 0,
     weight |-> "UnaryOperand"]

AppendRelinearize(x) ==
    [kind |-> "AppendRelinearize", x |-> x, y |-> NodeIndex(0), id |-> 0,
     weight |-> "UnaryOperand"]

AppendSub(x, y) ==
    [kind |-> "AppendSub", x |-> x, y |-> y, id |-> 0, weight |-> "UnaryOperand"]

RemoveNode(x) ==
    [kind |-> "RemoveNode", x |-> x, y |-> NodeIndex(0), id |-> 0,
     weight |-> "UnaryOperand"]

AppendNegate(x) ==
    [kind |-> "AppendNegate", x |-> x, y |-> NodeIndex(0), id |-> 0,
     weight |-> "UnaryOperand"]

RemoveEdge(x, y) ==
    [kind |-> "RemoveEdge", x |-> x, y |-> y, id |-> 0, weight |-> "UnaryOperand"]

AddEdge(x, y, edge_info) ==
    [kind |-> "AddEdge", x |-> x, y |-> y, id |-> 0, weight |-> edge_info]

\* Option<NodeIndex>::None in inserted_node_ids.
None == -1

\* materialize_index taking the number of a DeferredIndex for a handle.
materialize_index_as_handle(inserted_node_ids, x) ==
    [index |-> x.i, panicked |-> FALSE]

\* TransformList::materialize_index: a NodeIndex passes through; a DeferredIndex
\* reads inserted_node_ids[x] and panics when x is out of range or the entry is None.
materialize_index(inserted_node_ids, x) ==
    IF ~x.deferred THEN [index |-> x.i, panicked |-> FALSE]
    ELSE IF x.i + 1 > Len(inserted_node_ids) THEN [index |-> None, panicked |-> TRUE]
    ELSE IF inserted_node_ids[x.i + 1] = None THEN [index |-> None, panicked |-> TRUE]
    ELSE [index |-> inserted_node_ids[x.i + 1], panicked |-> FALSE]

\* TransformList::apply_1_input with the builder for operation as its callback.
apply_1_input(ir, inserted_node_ids, x, operation) ==
    LET mx == materialize_index(inserted_node_ids, x) IN
    IF mx.panicked THEN [ir |-> ir, id |-> None, panicked |-> TRUE]
    ELSE LET r == append_1_input_node(ir, operation, mx.index)
         IN [ir |-> r.ir, id |-> r.new_node, panicked |-> r.panicked]

\* TransformList::apply_2_input with the builder for operation as its callback.
apply_2_input(ir, inserted_node_ids, x, y, operation) ==
    LET mx == materialize_index(inserted_node_ids, x)
        my == materialize_index(inserted_node_ids, y)
    IN IF mx.panicked \/ my.panicked THEN [ir |-> ir, id |-> None, panicked |-> TRUE]
       ELSE LET r == append_2_input_node(ir, operation, mx.index, my.index)
            IN [ir |-> r.ir, id |-> r.new_node, panicked |-> r.panicked]

\* The match arm of TransformList::apply for transform t: the circuit after it,
\* the Option<NodeIndex> it yields, and whether it panicked.
apply_transform(ir, inserted_node_ids, t) ==
    CASE t.kind = "AppendAdd" ->
           apply_2_input(ir, inserted_node_ids, t.x, t.y, Operation("Add", 0))
      [] t.kind = "AppendMultiply" ->
           apply_2_input(ir, inserted_node_ids, t.x, t.y, Operation("Multiply", 0))
      [] t.kind = "AppendInputCiphertext" ->
           LET r == append_input_ciphertext(ir, t.id)
           IN [ir |-> r.ir, id |-> r.new_node, panicked |-> FALSE]
      [] t.kind = "AppendOutputCiphertext" ->
           apply_1_input(ir, inserted_node_ids, t.x, Operation("OutputCiphertext", 0))
      [] t.kind = "AppendRelinearize" ->
           apply_1_input(ir, inserted_node_ids, t.x, Operation("Relinearize", 0))
      [] t.kind = "AppendSub" ->
           apply_2_input(ir, inserted_node_ids, t.x, t.y, Operation("Sub", 0))
      [] t.kind = "RemoveNode" ->
           LET mx == materialize_index(inserted_node_ids, t.x) IN
           IF mx.panicked THEN [ir |-> ir, id |-> None, panicked |-> TRUE]
           ELSE [ir |-> remove_node(ir, mx.index), id |-> None, panicked |-> FALSE]
      [] t.kind = "AppendNegate" ->
           apply_1_input(ir, inserted_node_ids, t.x, Operation("Negate", 0))
      [] t.kind = "RemoveEdge" ->
           LET mx == materialize_index(inserted_node_ids, t.x)
               my == materialize_index(inserted_node_ids, t.y)
           IN IF mx.panicked \/ my.panicked
              THEN [ir |-> ir, id |-> None, panicked |-> TRUE]
              ELSE LET e == find_edge(ir, mx.index, my.index) IN
                   IF e = 0 THEN [ir |-> ir, id |-> None, panicked |-> TRUE]
                   ELSE [ir |-> remove_edge(ir, e), id |-> None, panicked |-> FALSE]
      [] t.kind = "AddEdge" ->
           LET mx == materialize_index(inserted_node_ids, t.x)
               my == materialize_index(inserted_node_ids, t.y)
           IN IF mx.panicked \/ my.panicked
              THEN [ir |-> ir, id |-> None, panicked |-> TRUE]
              ELSE LET r == update_edge(ir, mx.index, my.index, t.weight)
                   IN [ir |-> r.g, id |-> None, panicked |-> r.panicked]

\* The loop of apply recording only the handles of created nodes.
RECURSIVE apply_loop_some_only(_, _)
apply_loop_some_only(transforms, st) ==
    IF transforms = <<>> \/ st.panicked THEN st
    ELSE LET r == apply_transform(st.ir, st.inserted_node_ids, Head(transforms))
         IN apply_loop_some_only(Tail(transforms),
                [ir |-> r.ir,
                 inserted_node_ids |->
                    IF r.panicked \/ r.id = None THEN st.inserted_node_ids
                    ELSE Append(st.inserted_node_ids, r.id),
                 panicked |-> r.panicked])

\* The loop of TransformList::apply from a given position on: each transform is
\* applied and its result pushed onto inserted_node_ids; a panic ends the loop
\* with the circuit as the transforms before it left it.
RECURSIVE apply_loop(_, _)
apply_loop(transforms, st) ==
    IF transforms = <<>> \/ st.panicked THEN st
    ELSE LET r == apply_transform(st.ir, st.inserted_node_ids, Head(transforms))
         IN apply_loop(Tail(transforms),
                [ir |-> r.ir,
                 inserted_node_ids |->
                    IF r.panicked THEN st.inserted_node_ids
                    ELSE Append(st.inserted_node_ids, r.id),
                 panicked |-> r.panicked])

\* apply handing back a circuit rebuilt from its nodes alone.
apply_forgetting_edges(transforms, ir) ==
    LET r == apply_loop(transforms,
                 [ir |-> ir, inserted_node_ids |-> <<>>, panicked |-> FALSE])
    IN [r EXCEPT !.ir.edges = <<>>]

\* TransformList::apply on a list fresh from the callback (inserted_node_ids empty).
apply(transforms, ir) ==
    apply_loop(transforms, [ir |-> ir, inserted_node_ids |-> <<>>, panicked |-> FALSE])

\* apply as a transaction: a panic hands back the circuit apply was called on.
apply_list_transactional(l, c) ==
    LET r == apply_loop(l.transforms,
                 [ir |-> c, inserted_node_ids |-> l.inserted_node_ids,
                  panicked |-> FALSE])
    IN IF r.panicked THEN [r EXCEPT !.ir = c] ELSE r

\* TransformList::apply on a list in the state l: inserted_node_ids is what
\* earlier calls of apply on the same list left there (apply never clears it).
apply_list(l, c) ==
    apply_loop(l.transforms,
               [ir |-> c, inserted_node_ids |-> l.inserted_node_ids,
                panicked |-> FALSE])

(* ------------------------------ traversal ------------------------------- *)

\* prev_direction with the reverse case lost: Incoming whatever forward is.
prev_direction_always_incoming(fwd) == Incoming

\* Circuit::traverse, prev_direction
prev_direction(fwd) == IF fwd THEN Incoming ELSE Outgoing

\* Circuit::traverse, next_direction
next_direction(fwd) == IF fwd THEN Outgoing ELSE Incoming

\* sources with the table scanned from its end.
sources_descending(ir, fwd) ==
    Reverse(SelectSeq(node_identifiers(ir),
        LAMBDA x : neighbors_directed(ir, x, prev_direction(fwd)) = <<>>))

\* The filter of traverse's two scans for sources/sinks: the nodes, in table
\* order, that have no neighbor in the previous direction.
sources(ir, fwd) ==
    SelectSeq(node_identifiers(ir),
        LAMBDA x : neighbors_directed(ir, x, prev_direction(fwd)) = <<>>)

\* node_ready with any() for all(): one visited previous-direction neighbor
\* is enough.
node_ready_any(ir, vis, fwd, n) ==
    \E m \in Range(neighbors_directed(ir, n, prev_direction(fwd))) : m \in vis

\* The closure node_ready of traverse: every previous-direction neighbor of n is
\* in visited.
node_ready(ir, vis, fwd, n) ==
    \A m \in Range(neighbors_directed(ir, n, prev_direction(fwd))) : m \in vis

\* next_nodes without the snapshot: nothing is remembered before the callback.
next_nodes_forgotten(ir, fwd, n) == <<>>

\* The local next_nodes of traverse: the next-direction neighbors of n, taken
\* before the callback runs.
next_nodes_of(ir, fwd, n) == neighbors_directed(ir, n, next_direction(fwd))

\* The two loops without the test of ready: a candidate that is node_ready is
\* pushed whether or not it entered ready before.
RECURSIVE push_ready_unguarded(_, _, _, _, _)
push_ready_unguarded(cands, st, ir, vis, fwd) ==
    IF cands = <<>> THEN st
    ELSE LET i == Head(cands)
             st1 == IF node_ready(ir, vis, fwd, i)
                    THEN [ready |-> st.ready \cup {i},
                          ready_nodes |-> Append(st.ready_nodes, i)]
                    ELSE st
         IN push_ready_unguarded(Tail(cands), st1, ir, vis, fwd)

\* The two loops of traverse that push ready dependents: each candidate, in order,
\* that is not in ready and is node_ready enters ready and is pushed.
RECURSIVE push_ready(_, _, _, _, _)
push_ready(cands, st, ir, vis, fwd) ==
    IF cands = <<>> THEN st
    ELSE LET i == Head(cands)
             st1 == IF i \notin st.ready /\ node_ready(ir, vis, fwd, i)
                    THEN [ready |-> st.ready \cup {i},
                          ready_nodes |-> Append(st.ready_nodes, i)]
                    ELSE st
         IN push_ready(Tail(cands), st1, ir, vis, fwd)

\* The last loop of traverse queueing behind the waiting nodes: each new
\* source/sink goes to the bottom of ready_nodes.
RECURSIVE push_sources_below(_, _)
push_sources_below(cands, st) ==
    IF cands = <<>> THEN st
    ELSE LET i == Head(cands)
             st1 == IF i \notin st.ready
                    THEN [ready |-> st.ready \cup {i},
                          ready_nodes |-> <<i>> \o st.ready_nodes]
                    ELSE st
         IN push_sources_below(Tail(cands), st1)

\* The last loop of traverse: each source/sink, in order, that is not in ready
\* enters ready and is pushed.
RECURSIVE push_sources(_, _)
push_sources(cands, st) ==
    IF cands = <<>> THEN st
    ELSE LET i == Head(cands)
             st1 == IF i \notin st.ready
                    THEN [ready |-> st.ready \cup {i},
                          ready_nodes |-> Append(st.ready_nodes, i)]
                    ELSE st
         IN push_sources(Tail(cands), st1)

\* enqueue without its first loop: the current neighbors of n are not examined.
enqueue_without_current(ir, vis, fwd, n, next_nodes, st) ==
    push_sources(sources(ir, fwd), push_ready(next_nodes, st, ir, vis, fwd))

\* The part of one iteration of traverse's loop that follows transforms.apply:
\* the current neighbors of n when n still exists, then the neighbors remembered
\* in next_nodes, then the sources/sinks.
enqueue(ir, vis, fwd, n, next_nodes, st) ==
    LET a == IF contains_node(ir, n)
             THEN push_ready(neighbors_directed(ir, n, next_direction(fwd)),
                             st, ir, vis, fwd)
             ELSE st
        b == push_ready(next_nodes, a, ir, vis, fwd)
    IN push_sources(sources(ir, fwd), b)

\* The state of a call of traverse as its loop is entered: ready_nodes and ready
\* are the sources (forward) or sinks (reverse).
traverse_start(c, fwd) ==
    [ir |-> c, ready |-> Range(sources(c, fwd)), visited |-> {},
     ready_nodes |-> sources(c, fwd), order |-> <<>>, inserted |-> <<>>,
     pc |-> "traverse"]

\* The end of one iteration of the loop of traverse: r is what transforms.apply
\* left, st what the three loops pushed; a panic of apply ends the call before
\* the loops.
traverse_pushed(t, n, r, st) ==
    [ir |-> r.ir,
     ready |-> IF r.panicked THEN t.ready ELSE st.ready,
     visited |-> t.visited \cup {n},
     ready_nodes |-> IF r.panicked THEN Front(t.ready_nodes) ELSE st.ready_nodes,
     order |-> Append(t.order, n),
     inserted |-> r.inserted_node_ids,
     pc |-> IF r.panicked THEN "panic" ELSE "traverse"]

\* One iteration of the loop from the callback's return on: next_nodes was
\* taken before the callback ran, r is what transforms.apply left.
traverse_applied(t, fwd, n, next_nodes, r) ==
    traverse_pushed(t, n, r,
        enqueue(r.ir, t.visited \cup {n}, fwd, n, next_nodes,
                [ready |-> t.ready, ready_nodes |-> Front(t.ready_nodes)]))

\* One iteration of the loop of traverse on the state t of a call in the given
\* direction, the callback returning transforms: pop n, mark it visited,
\* remember its next nodes, apply the transforms, push what became ready.
traverse_step(t, fwd, transforms) ==
    traverse_applied(t, fwd, Last(t.ready_nodes),
                     next_nodes_of(t.ir, fwd, Last(t.ready_nodes)),
                     apply(transforms, t.ir))

(* ------------------------------ callbacks -------------------------------- *)

\* The operands a callback may name at the end of the batch b: a live handle or
\* the DeferredIndex of an earlier transform of b.
Operands(ir, b) ==
    {NodeIndex(h) : h \in NodeSet(ir)} \cup {DeferredIndex(j - 1) : j \in 1..Len(b)}

\* The transforms a callback of the given kind may push after the batch b while
\* visiting n.
\*   "empty":          nothing (TransformList::default()).
\*   "remove_current": RemoveNode(n), as tests::can_delete_during_traversal.
\*   "remove_any":     RemoveNode of any live node.
\*   "append":         Append* transforms with any operands.
\*   "any":            a single transform on live handles: RemoveNode, AddEdge,
\*                     RemoveEdge, AppendInputCiphertext or AppendNegate
\*                     (traverse never reads an edge's role).
\*   "edgeless":       transforms that name no edge and no operand: RemoveNode
\*                     of any live node and AppendInputCiphertext.
\*   "documented":     the three mutations the doc comment of forward_traverse
\*                     lists: delete the current node, insert nodes after the
\*                     current node (while it is still a node), add nodes with
\*                     no dependencies.
Pushes(kind, ir, n, b) ==
    CASE kind = "empty" -> {}
      [] kind = "remove_current" -> IF b = <<>> THEN {RemoveNode(NodeIndex(n))} ELSE {}
      [] kind = "remove_any" ->
           IF b = <<>> THEN {RemoveNode(NodeIndex(h)) : h \in NodeSet(ir)} ELSE {}
      [] kind = "append" ->
           {AppendInputCiphertext(0)}
           \cup {AppendNegate(x) : x \in Operands(ir, b)}
           \cup {AppendAdd(x, y) : x \in Operands(ir, b), y \in Operands(ir, b)}
      [] kind = "any" ->
           IF b # <<>> THEN {}
           ELSE LET H == {NodeIndex(h) : h \in NodeSet(ir)}
                IN {RemoveNode(x) : x \in H}
                   \cup {AddEdge(x, y, "UnaryOperand") : x \in H, y \in H}
                   \cup {RemoveEdge(x, y) : x \in H, y \in H}
                   \cup {AppendInputCiphertext(0)}
                   \cup {AppendNegate(x) : x \in H}
      [] kind = "edgeless" ->
           {RemoveNode(NodeIndex(h)) : h \in NodeSet(ir)} \cup {AppendInputCiphertext(0)}
      [] kind = "documented" ->
           IF RemoveNode(NodeIndex(n)) \in Range(b)
           THEN {AppendInputCiphertext(0)}
           ELSE {RemoveNode(NodeIndex(n)), AppendInputCiphertext(0),
                 AppendNegate(NodeIndex(n))}
                \cup {AppendMultiply(NodeIndex(n), y) : y \in Operands(ir, b)}

\* The transform lists of at most k transforms a callback of the given kind may
\* return while visiting n, among those that leave the node table within MaxNodes
\* slots.
RECURSIVE Batches(_, _, _, _)
Batches(kind, ir, n, k) ==
    IF k = 0 THEN {<<>>}
    ELSE LET shorter == Batches(kind, ir, n, k - 1)
         IN shorter \cup
            UNION {{c \in {Append(b, t) : t \in Pushes(kind, ir, n, b)} :
                        Len(apply(c, ir).ir.nodes) <= MaxNodes} :
                     b \in {c \in shorter : Len(c) = k - 1}}

(* ------------------------------ state ------------------------------------ *)

VARIABLES
    ir,            \* the Circuit
    pc,            \* "build", "traverse", "done", "parted", "pruned", "applied",
                   \* "reapplied", "called" or "panic"
    forward,       \* traverse's argument forward
    callback,      \* the kind of callback handed to traverse
    ready,         \* traverse's HashSet ready
    visited,       \* traverse's HashSet visited
    ready_nodes,   \* traverse's Vec ready_nodes (a stack, top last)
    order,         \* what the callback was handed, in order: the handle and
                   \* whether it was a node of the graph at that moment
    born,          \* per slot, the number of callback invocations begun when
                   \* its present node was added (0: before the traversal)
    ir0,           \* the Circuit as traverse was called
    keep,          \* prune's argument nodes
    pruned,        \* what prune returned
    list,          \* the TransformList handed to apply: transforms and
                   \* inserted_node_ids
    before,        \* the Circuit as apply was called
    returned,      \* the last call of eq, get_outputs or validate: its name, its
                   \* other arguments and the value it returned
    twin,          \* a second call of traverse run alongside the first on a
                   \* circuit of its own: its ir, ready, visited, ready_nodes,
                   \* the handles passed (order) and its pc
    \* examples/calculator_rational: the threads alice and bob, main, and the
    \* four channels between them
    apc,           \* where the thread alice is
    bpc,           \* where the thread bob is
    mainpc,        \* where main is
    aerr,          \* the call whose Err ended alice's thread_body ("none": none)
    berr,          \* the call whose Err ended bob's thread_body ("none": none)
    params_chan,   \* Bob -> Alice: scheme params (send_bob_params)
    pub_chan,      \* Alice -> Bob: public key (send_alice_pub)
    calc_chan,     \* Alice -> Bob: expressions (send_alice_calc)
    result_chan,   \* Bob -> Alice: results (send_bob_result)
    ans,           \* bob's local ans
    a_expr,        \* alice's encrypted expression about to be sent
    a_result,      \* alice's local result, as received
    b_expr,        \* bob's expression as received
    b_c,           \* bob's local c, about to be sent
    sent,          \* the expressions alice has sent, in order
    received,      \* the results alice has received, in order
    computed,      \* the results bob has computed, in order
    printed        \* the results alice has decrypted and printed, in order

vars == <<ir, pc, forward, callback, ready, visited, ready_nodes, order, born, ir0,
          keep, pruned, list, before, returned, twin,
          apc, bpc, mainpc, aerr, berr, params_chan, pub_chan, calc_chan,
          result_chan, ans, a_expr, a_result, b_expr, b_c, sent, received,
          computed, printed>>

travVars == <<forward, callback, ready, visited, ready_nodes, order, born, ir0>>

pruneVars == <<keep, pruned>>

applyVars == <<list, before>>

callVars == <<returned>>

twinVars == <<twin>>

calcVars == <<apc, bpc, mainpc, aerr, berr, params_chan, pub_chan, calc_chan,
              result_chan, ans, a_expr, a_result, b_expr, b_c, sent, received,
              computed, printed>>

circuitVars == <<ir, pc, travVars, pruneVars, applyVars, callVars, twinVars>>

\* A Ciphertext of a Rational, by what it decrypts to: numerator and
\* denominator.
Ciphertext(num, den) == [num |-> num, den |-> den]

\* No value yet in a local that is assigned later.
Unset == Ciphertext(0, 0)

\* main has created the four channels and spawned alice and bob: alice is about
\* to receive the params, bob about to compile; nothing is in any channel.
CalcInit ==
    /\ apc = "recv_params"
    /\ bpc = "compile"
    /\ mainpc = "join_a"
    /\ aerr = "none"
    /\ berr = "none"
    /\ params_chan = <<>>
    /\ pub_chan = <<>>
    /\ calc_chan = <<>>
    /\ result_chan = <<>>
    /\ ans = Unset
    /\ a_expr = <<>>
    /\ a_result = Unset
    /\ b_expr = <<>>
    /\ b_c = Unset
    /\ sent = <<>>
    /\ received = <<>>
    /\ computed = <<>>
    /\ printed = <<>>

\* No second traversal.
NoTwin == [pc |-> "none"]

\* No call yet.
NoCall == [fn |-> "none"]

\* TransformList::new
NewTransformList == [transforms |-> <<>>, inserted_node_ids |-> <<>>]

\* The representative operations the builder actions draw from.
ZeroOps == {Operation("InputCiphertext", 0)}

OneOps == {Operation("Negate", 0), Operation("OutputCiphertext", 0)}

TwoOps == {Operation("Add", 0)}

NoResult == [panicked |-> FALSE, circuit |-> NewCircuit("Bfv")]

InitWith(schemes) ==
    /\ ir \in {NewCircuit(s) : s \in schemes}
    /\ pc = "build"
    /\ forward = TRUE
    /\ callback = "empty"
    /\ ready = {}
    /\ visited = {}
    /\ ready_nodes = <<>>
    /\ order = <<>>
    /\ born = <<>>
    /\ ir0 = NewCircuit("Bfv")
    /\ keep = <<>>
    /\ pruned = NoResult
    /\ list = NewTransformList
    /\ before = NewCircuit("Bfv")
    /\ returned = NoCall
    /\ twin = NoTwin
    /\ CalcInit

\* Whether the builder may add a node: a free slot, or room in the table.
Room(bound) == ir.free # <<>> \/ Len(ir.nodes) < bound

\* append_input_ciphertext / append_input_literal
AppendZero ==
    /\ pc = "build"
    /\ Room(MaxBuild)
    /\ \E op \in ZeroOps : ir' = append_0_input_node(ir, op).ir
    /\ UNCHANGED <<pc, travVars, pruneVars, applyVars, callVars, twinVars, calcVars>>

\* append_negate / append_output_ciphertext / append_relinearize on a live handle
AppendOne ==
    /\ pc = "build"
    /\ Room(MaxBuild)
    /\ \E op \in OneOps, x \in NodeSet(ir) : ir' = append_1_input_node(ir, op, x).ir
    /\ UNCHANGED <<pc, travVars, pruneVars, applyVars, callVars, twinVars, calcVars>>

\* append_add / append_sub / append_multiply / append_rotate_* on live handles
AppendTwo ==
    /\ pc = "build"
    /\ Room(MaxBuild)
    /\ \E op \in TwoOps, x \in NodeSet(ir), y \in NodeSet(ir) :
          ir' = append_2_input_node(ir, op, x, y).ir
    /\ UNCHANGED <<pc, travVars, pruneVars, applyVars, callVars, twinVars, calcVars>>

\* Circuit::remove_node called by the builder on a live handle
Remove ==
    /\ pc = "build"
    /\ \E id \in NodeSet(ir) : ir' = remove_node(ir, id)
    /\ UNCHANGED <<pc, travVars, pruneVars, applyVars, callVars, twinVars, calcVars>>

\* forward_traverse / reverse_traverse up to the loop of traverse, on a circuit of
\* at most bound slots: ready_nodes and ready are the sources (forward) or sinks
\* (reverse).
StartTraverse(kinds, bound) ==
    /\ pc = "build"
    /\ Len(ir.nodes) <= bound
    /\ \E f \in BOOLEAN, k \in kinds :
          /\ forward' = f
          /\ callback' = k
          /\ ready_nodes' = sources(ir, f)
          /\ ready' = Range(sources(ir, f))
    /\ visited' = {}
    /\ order' = <<>>
    /\ born' = [i \in 1..Len(ir.nodes) |-> 0]
    /\ ir0' = ir
    /\ pc' = "traverse"
    /\ UNCHANGED <<ir, pruneVars, applyVars, callVars, twinVars, calcVars>>

\* One iteration of the loop of traverse: pop n, mark it visited, remember its
\* next nodes, run the callback, apply its transforms, push what became ready.
Visit ==
    /\ pc = "traverse"
    /\ ready_nodes # <<>>
    /\ LET n == Last(ready_nodes)
           vis == visited \cup {n}
           next_nodes == next_nodes_of(ir, forward, n)
       IN \E transforms \in Batches(callback, ir, n, MaxBatch) :
            LET r == apply(transforms, ir)
                st == enqueue(r.ir, vis, forward, n, next_nodes,
                              [ready |-> ready, ready_nodes |-> Front(ready_nodes)])
            IN /\ ir' = r.ir
               /\ visited' = vis
               /\ order' = Append(order, [node |-> n, live |-> contains_node(ir, n)])
               /\ born' = [i \in 1..Len(r.ir.nodes) |->
                             IF (i - 1) \in Range(r.inserted_node_ids)
                             THEN Len(order) + 1
                             ELSE IF i <= Len(born) THEN born[i] ELSE 0]
               /\ IF r.panicked
                  THEN /\ pc' = "panic"
                       /\ ready' = ready
                       /\ ready_nodes' = Front(ready_nodes)
                  ELSE /\ pc' = pc
                       /\ ready' = st.ready
                       /\ ready_nodes' = st.ready_nodes
    /\ UNCHANGED <<forward, callback, ir0, pruneVars, applyVars, callVars, twinVars, calcVars>>

\* traverse returns: ready_nodes.pop() yields None.
Return ==
    /\ pc = "traverse"
    /\ ready_nodes = <<>>
    /\ pc' = "done"
    /\ UNCHANGED <<ir, travVars, pruneVars, applyVars, callVars, twinVars, calcVars>>

\* Traversals of append-built circuits with callbacks that return empty lists.
NextEmpty ==
    \/ AppendZero
    \/ AppendOne
    \/ AppendTwo
    \/ StartTraverse({"empty"}, MaxBuild)
    \/ Visit
    \/ Return

SpecEmpty == InitWith({"Bfv"}) /\ [][NextEmpty]_vars

\* Traversals whose callbacks remove nodes: the current one, or any one.
NextRemove ==
    \/ AppendZero
    \/ AppendOne
    \/ AppendTwo
    \/ StartTraverse({"remove_current", "remove_any"}, MaxBuild)
    \/ Visit
    \/ Return

SpecRemove == InitWith({"Bfv"}) /\ [][NextRemove]_vars

\* Traversals whose callbacks append nodes with any operands.
NextAppend ==
    \/ AppendZero
    \/ AppendOne
    \/ AppendTwo
    \/ StartTraverse({"append"}, MaxSeed)
    \/ Visit
    \/ Return

SpecAppend == InitWith({"Bfv"}) /\ [][NextAppend]_vars

\* Traversals whose callbacks perform the three documented mutations.
NextDocumented ==
    \/ AppendZero
    \/ AppendOne
    \/ AppendTwo
    \/ StartTraverse({"documented"}, MaxSeed)
    \/ Visit
    \/ Return

SpecDocumented == InitWith({"Bfv"}) /\ [][NextDocumented]_vars

(* ------------------------------ observations ----------------------------- *)

\* The set of previous-direction neighbors of n.
PrevSet(g, fwd, n) == Range(neighbors_directed(g, n, prev_direction(fwd)))

\* The set of next-direction neighbors of n.
NextSet(g, fwd, n) == Range(neighbors_directed(g, n, next_direction(fwd)))

\* The positions of order at which the node now in slot h was handed to the
\* callback.
PassesOf(h) ==
    {i \in 1..Len(order) : order[i].node = h /\ order[i].live /\ i > born[h + 1]}

\* The positions of order at which handle h was handed to the callback.
PositionsOf(h) == {i \in 1..Len(order) : order[i].node = h}

\* Handle p was handed to the callback before position i of order.
PassedBefore(p, i) == \E j \in 1..(i - 1) : order[j].node = p

(* ------------------------------ C1 --------------------------------------- *)

\* C1: for a circuit built only with the append_* builders, forward_traverse with
\* callbacks returning empty transform lists hands every node to the callback
\* exactly once (checked when traverse has returned), and never hands over a node
\* before a node it has an Incoming edge from (checked at every step).
C1_ForwardVisitsAllInDependencyOrder ==
    (callback = "empty" /\ forward /\ pc \in {"traverse", "done"}) =>
        /\ \A i \in 1..Len(order) :
              \A p \in PrevSet(ir, TRUE, order[i].node) : PassedBefore(p, i)
        /\ \A h \in NodeSet(ir) : Cardinality(PositionsOf(h)) <= 1
        /\ pc = "done" =>
              /\ \A h \in NodeSet(ir) : Cardinality(PositionsOf(h)) = 1
              /\ \A i \in 1..Len(order) : order[i].node \in NodeSet(ir)

\* A finished forward traversal of a three-node circuit with a two-operand node.
C1_Witness ==
    /\ pc = "done" /\ callback = "empty" /\ forward
    /\ Len(order) = 3
    /\ \E h \in NodeSet(ir) : Cardinality(PrevSet(ir, TRUE, h)) = 2

(* ------------------------------ C2 --------------------------------------- *)

\* C2: for a circuit built only with the append_* builders, reverse_traverse with
\* callbacks returning empty transform lists hands every node to the callback
\* exactly once, each node after all nodes it has an Outgoing edge to.
C2_ReverseVisitsAllDependentsFirst ==
    (callback = "empty" /\ ~forward /\ pc \in {"traverse", "done"}) =>
        /\ \A i \in 1..Len(order) :
              \A e \in Range(ir.edges) :
                  e.source = order[i].node => PassedBefore(e.target, i)
        /\ \A h \in NodeSet(ir) : Cardinality(PositionsOf(h)) <= 1
        /\ pc = "done" =>
              /\ \A h \in NodeSet(ir) : Cardinality(PositionsOf(h)) = 1
              /\ \A i \in 1..Len(order) : order[i].node \in NodeSet(ir)

\* A finished reverse traversal of a three-node circuit one of whose nodes feeds
\* the two others.
C2_Witness ==
    /\ pc = "done" /\ callback = "empty" /\ ~forward
    /\ Len(order) = 3
    /\ \E h \in NodeSet(ir) : Cardinality(NextSet(ir, TRUE, h)) = 2

(* ------------------------------ C3 --------------------------------------- *)

\* The nodes a remove_current callback has removed: in the circuit as traverse was
\* called, and no longer in it.
RemovedNodes == NodeSet(ir0) \ NodeSet(ir)

\* Handle p was still a node when position i of order was handed over: a
\* remove_current callback removes a node only while visiting it.
LiveAt(p, i) == p \in NodeSet(ir) \/ ~PassedBefore(p, i)

\* C3: when callbacks remove the node being visited, every node that was a
\* next-direction neighbor of a removed node is handed to the callback exactly once
\* (at most once at every step, once when traverse has returned), and only after
\* each of its previous-direction neighbors that is still a node at that moment;
\* forward and reverse.
C3_NeighborsOfRemovedNodeVisitedOnce ==
    (callback = "remove_current" /\ pc \in {"traverse", "done"}) =>
        \A r \in RemovedNodes : \A d \in NextSet(ir0, forward, r) :
            /\ Cardinality(PositionsOf(d)) <= 1
            /\ pc = "done" => Cardinality(PositionsOf(d)) = 1
            /\ \A i \in PositionsOf(d) : \A p \in PrevSet(ir0, forward, d) :
                  LiveAt(p, i) => PassedBefore(p, i)

\* A finished traversal in which a removed node had a next-direction neighbor that
\* is still in the graph with another previous-direction neighbor.
C3_Witness ==
    /\ pc = "done" /\ callback = "remove_current"
    /\ \E r \in RemovedNodes : \E d \in NextSet(ir0, forward, r) :
          d \in NodeSet(ir) /\ PrevSet(ir, forward, d) # {}

(* ------------------------------ C6 --------------------------------------- *)

\* C6: a node removed from the graph after it entered ready and before it was
\* popped is never handed to the callback: every handle handed over is a node of
\* the graph at that moment.
C6_RemovedNodeNeverPassed ==
    callback = "remove_any" => \A i \in 1..Len(order) : order[i].live

(* ------------------------------ C4 --------------------------------------- *)

\* The nodes of the graph that a transform list added during the traversal.
Appended == {h \in NodeSet(ir) : born[h + 1] > 0}

\* The previous-direction neighbors m had when position i of order was handed
\* over (callbacks that only append never take an edge away).
PrevAt(m, i) == {p \in PrevSet(ir, forward, m) : born[p + 1] < i}

\* C4 as stated: every node a transform list appended, whatever its operands, has
\* been handed to the callback exactly once when traverse returns, at a point
\* where its previous-direction neighbors were visited.
C4_AppendedNodeVisitedOnce ==
    (callback = "append" /\ pc = "done") =>
        \A m \in Appended :
            /\ Cardinality(PassesOf(m)) = 1
            /\ \A i \in PassesOf(m) : \A p \in PrevAt(m, i) : PassedBefore(p, i)

\* An appended node of a forward traversal that the walk can still reach: it has
\* no operands, or every operand is handed to the callback and at least one of
\* them not before the step that appended the node (it is the current node, or it
\* is visited later).
Anchored(m) ==
    LET operands == PrevSet(ir, TRUE, m) IN
    \/ operands = {}
    \/ /\ \A p \in operands : PositionsOf(p) # {}
       /\ \E p \in operands : ~PassedBefore(p, born[m + 1])

\* C4 amended: with callbacks that only append, an appended node is handed to the
\* callback at most once and only when its previous-direction neighbors of that
\* moment are visited; when traverse has returned it has been handed over exactly
\* once in a reverse traversal, and in a forward traversal exactly when it is
\* Anchored (a node whose operands were all visited before the current step is
\* never handed over).
C4_AppendedNodeVisitedOnceIfAnchored ==
    (callback = "append" /\ pc \in {"traverse", "done"}) =>
        \A m \in Appended :
            /\ Cardinality(PassesOf(m)) <= 1
            /\ \A i \in PassesOf(m) : \A p \in PrevAt(m, i) : PassedBefore(p, i)
            /\ pc = "done" =>
                  (Cardinality(PassesOf(m)) = 1 <=> (~forward \/ Anchored(m)))

\* A finished forward traversal in which a node appended with the DeferredIndex of
\* another appended node among its operands was handed over.
C4_Witness ==
    /\ pc = "done" /\ callback = "append" /\ forward
    /\ \E m \in Appended :
          /\ PassesOf(m) # {}
          /\ \E p \in PrevSet(ir, TRUE, m) : p \in Appended /\ born[p + 1] = born[m + 1]

(* ------------------------------ C7 --------------------------------------- *)

\* The previous-direction neighbors m was inserted with: those it had when the
\* transform list that appended it had been applied.
InsertedWith(m) == {p \in PrevSet(ir, forward, m) : born[p + 1] <= born[m + 1]}

\* C7: with callbacks that append, a node inserted with at least one
\* previous-direction neighbor is handed to the callback only after every one of
\* those neighbors has been handed to it.
C7_InsertedAfterItsPreviousNeighbors ==
    callback = "append" =>
        \A m \in Appended : \A i \in PassesOf(m) :
            \A p \in InsertedWith(m) : PassedBefore(p, i)

\* An appended node with two previous-direction neighbors, one of them not yet
\* visited when the node was appended, has been handed to the callback.
C7_Witness ==
    /\ callback = "append"
    /\ \E m \in Appended :
          /\ PassesOf(m) # {}
          /\ Cardinality(InsertedWith(m)) = 2
          /\ \E p \in InsertedWith(m) : ~PassedBefore(p, born[m + 1] + 1)

(* ------------------------------ C5 --------------------------------------- *)

\* C5: when callbacks perform only the three documented mutations (delete the
\* current node, insert nodes that depend on the current node, add nodes with no
\* dependencies), every node in the graph when traverse returns has been handed to
\* the callback exactly once.
C5_DocumentedMutationsVisitEveryNode ==
    (callback = "documented" /\ pc = "done") =>
        \A h \in NodeSet(ir) : Cardinality(PassesOf(h)) = 1

(* ------------------------------ prune ------------------------------------ *)

\* Graph::from(StableGraph): the live nodes renumbered 0, 1, ... in table order
\* (no holes), every edge carried over with its endpoints renumbered.
GraphFrom(g) ==
    LET ids == node_identifiers(g)
        node_index_map(h) == (CHOOSE i \in 1..Len(ids) : ids[i] = h) - 1
    IN [nodes |-> [i \in 1..Len(ids) |-> g.nodes[ids[i] + 1]],
        edges |-> [i \in 1..Len(g.edges) |->
                     [source |-> node_index_map(g.edges[i].source),
                      target |-> node_index_map(g.edges[i].target),
                      weight |-> g.edges[i].weight]]]

\* Graph::reverse: every edge turned around.
reverse(cg) ==
    [cg EXCEPT !.edges = [i \in 1..Len(cg.edges) |->
                            [source |-> cg.edges[i].target,
                             target |-> cg.edges[i].source,
                             weight |-> cg.edges[i].weight]]]

\* petgraph toposort from a partial order on: a node none of whose predecessors
\* is left is placed next (the greatest such index); a cycle when none is.
RECURSIVE toposort_from(_, _, _)
toposort_from(cg, placed, left) ==
    IF left = {} THEN [cycle |-> FALSE, order |-> placed]
    ELSE LET free == {v \in left :
                        \A e \in Range(cg.edges) : e.target = v => e.source \notin left}
         IN IF free = {} THEN [cycle |-> TRUE, order |-> placed]
            ELSE LET v == CHOOSE x \in free : \A y \in free : y <= x
                 IN toposort_from(cg, Append(placed, v), left \ {v})

\* petgraph toposort(&compact_graph, None): a topological order of the node
\* indices, or Err(Cycle).
toposort(cg) == toposort_from(cg, <<>>, 0..(Len(cg.nodes) - 1))

\* petgraph dag_to_toposorted_adjacency_list: revmap[index] is the rank of the
\* node in the order, res[rank] the ranks of the node's successors.
dag_to_toposorted_adjacency_list(cg, topo) ==
    LET rank(ix) == (CHOOSE r \in 1..Len(topo) : topo[r] = ix) - 1
    IN [revmap |-> [i \in 1..Len(cg.nodes) |-> rank(i - 1)],
        res |-> [r \in 1..Len(topo) |->
                   {rank(e.target) : e \in {d \in Range(cg.edges) : d.source = topo[r]}}]]

\* The ranks reachable from rank r along one or more edges of res (successors
\* have greater ranks).
RECURSIVE reachable_from(_, _)
reachable_from(res, r) ==
    UNION {{s} \cup reachable_from(res, s) : s \in res[r + 1]}

\* petgraph dag_transitive_reduction_closure, its second result: the adjacency
\* list of the transitive closure.
dag_transitive_reduction_closure(res) ==
    [r \in 1..Len(res) |-> reachable_from(res, r - 1)]

\* The while loop of prune: pop a rank and push each of its closure neighbors
\* that is not yet in closure_set.
RECURSIVE prune_visit(_, _, _)
prune_visit(closure, visit, closure_set) ==
    IF visit = <<>> THEN closure_set
    ELSE LET fresh == closure[Last(visit) + 1] \ closure_set
         IN prune_visit(closure, Front(visit) \o Ascending(fresh),
                        closure_set \cup fresh)

\* filter_map with the node closure answering Some for every node.
filter_map_all(cg, kept) == [nodes |-> cg.nodes, edges |-> cg.edges]

\* Graph::filter_map as prune calls it: the nodes whose index is in kept, in
\* order and renumbered without holes, and the edges between them.
filter_map(cg, kept) ==
    LET ids == Ascending(kept)
        renumber(ix) == (CHOOSE i \in 1..Len(ids) : ids[i] = ix) - 1
        es == SelectSeq(cg.edges, LAMBDA e : e.source \in kept /\ e.target \in kept)
    IN [nodes |-> [i \in 1..Len(ids) |-> cg.nodes[ids[i] + 1]],
        edges |-> [i \in 1..Len(es) |->
                     [source |-> renumber(es[i].source),
                      target |-> renumber(es[i].target),
                      weight |-> es[i].weight]]]

\* The returned Circuit with the scheme fixed to Bfv whatever the source's.
pruned_circuit_bfv(circuit, filtered) ==
    [scheme |-> "Bfv", nodes |-> filtered.nodes, free |-> <<>>, edges |-> filtered.edges]

\* The Circuit prune returns: Self { scheme: self.scheme, graph:
\* StableGraph::from(pruned) }, the handles being the indices of pruned.
pruned_circuit(circuit, filtered) ==
    [scheme |-> circuit.scheme, nodes |-> filtered.nodes, free |-> <<>>,
     edges |-> filtered.edges]

\* `revmap[n.index()]` of prune's first loop: the handle of the source circuit is
\* used as an index into revmap, which has one entry per node of compact_graph.
mapped_id(revmap, n) == revmap[n + 1]

\* Circuit::prune: the returned Circuit, or a panic (toposort's unwrap on a cycle,
\* revmap[n.index()] out of bounds).
prune(circuit, nodes) ==
    LET compact_graph == reverse(GraphFrom(circuit))
        topo == toposort(compact_graph)
        adj == dag_to_toposorted_adjacency_list(compact_graph, topo.order)
        closure == dag_transitive_reduction_closure(adj.res)
    IN IF topo.cycle \/ \E i \in 1..Len(nodes) : nodes[i] + 1 > Len(adj.revmap)
       THEN [panicked |-> TRUE, circuit |-> NewCircuit(circuit.scheme)]
       ELSE LET seeds == [i \in 1..Len(nodes) |-> mapped_id(adj.revmap, nodes[i])]
                closure_set == prune_visit(closure, seeds, Range(seeds))
                kept == {ix \in 0..(Len(compact_graph.nodes) - 1) :
                            adj.revmap[ix + 1] \in closure_set}
                filtered == filter_map(reverse(compact_graph), kept)
            IN [panicked |-> FALSE, circuit |-> pruned_circuit(circuit, filtered)]

\* The keep lists handed to prune: at most MaxKeep live handles.
RECURSIVE KeepLists(_, _)
KeepLists(g, k) ==
    IF k = 0 THEN {<<>>}
    ELSE LET shorter == KeepLists(g, k - 1)
         IN shorter \cup {Append(l, h) : l \in {c \in shorter : Len(c) = k - 1},
                                         h \in NodeSet(g)}

\* A call of prune on the circuit built so far.
Prune ==
    /\ pc = "build"
    /\ \E nodes \in KeepLists(ir, MaxKeep) :
          /\ keep' = nodes
          /\ pruned' = prune(ir, nodes)
    /\ pc' = "pruned"
    /\ UNCHANGED <<ir, travVars, applyVars, callVars, twinVars, calcVars>>

\* Circuits built with the append_* builders and remove_node, then pruned.
NextPrune ==
    \/ AppendZero
    \/ AppendOne
    \/ AppendTwo
    \/ Remove
    \/ Prune

SpecPrune == InitWith(SchemeType) /\ [][NextPrune]_vars

(* ------------------------------ apply ------------------------------------ *)

\* The operands a caller of push may write: the handle of a node of the circuit,
\* or any DeferredIndex up to MaxList (earlier, own, later and past the end).
PushOperands(c) ==
    {NodeIndex(h) : h \in NodeSet(c)} \cup {DeferredIndex(j) : j \in 0..MaxList}

\* The transforms a caller may push: one representative per shape of match arm
\* of apply (no operand, apply_1_input, apply_2_input, RemoveNode, RemoveEdge,
\* AddEdge).
PushTransforms(c) ==
    {AppendInputCiphertext(0)}
    \cup {AppendNegate(x) : x \in PushOperands(c)}
    \cup {AppendAdd(x, y) : x \in PushOperands(c), y \in PushOperands(c)}
    \cup {RemoveNode(x) : x \in PushOperands(c)}
    \cup {RemoveEdge(x, y) : x \in PushOperands(c), y \in PushOperands(c)}
    \cup {AddEdge(x, y, "LeftOperand") : x \in PushOperands(c), y \in PushOperands(c)}

\* TransformList::push called up to k times on a new list: the transforms lists
\* of at most k transforms.
RECURSIVE Pushed(_, _)
Pushed(c, k) ==
    IF k = 0 THEN {<<>>}
    ELSE LET shorter == Pushed(c, k - 1)
         IN shorter \cup {Append(b, t) : b \in {l \in shorter : Len(l) = k - 1},
                                         t \in PushTransforms(c)}

\* A TransformList is built with new and push and applied to the circuit built
\* so far; a panic of apply leaves the circuit and inserted_node_ids as the
\* transforms before the panicking one made them.
Apply ==
    /\ pc = "build"
    /\ Len(ir.nodes) <= MaxSeed
    /\ \E transforms \in Pushed(ir, MaxList) :
          LET r == apply_list([NewTransformList EXCEPT !.transforms = transforms], ir)
          IN /\ list' = [transforms |-> transforms,
                         inserted_node_ids |-> r.inserted_node_ids]
             /\ ir' = r.ir
             /\ pc' = IF r.panicked THEN "panic" ELSE "applied"
    /\ before' = ir
    /\ UNCHANGED <<travVars, pruneVars, callVars, twinVars, calcVars>>

\* apply called once more on the list it has returned from (apply borrows the
\* list, the caller still holds it).
Reapply ==
    /\ pc = "applied"
    /\ LET r == apply_list(list, ir)
       IN /\ list' = [list EXCEPT !.inserted_node_ids = r.inserted_node_ids]
          /\ ir' = r.ir
          /\ pc' = IF r.panicked THEN "panic" ELSE "reapplied"
    /\ before' = ir
    /\ UNCHANGED <<travVars, pruneVars, callVars, twinVars, calcVars>>

\* Circuits built with the builders and remove_node, then changed by a
\* TransformList applied once or twice.
NextApply ==
    \/ AppendZero
    \/ AppendOne
    \/ AppendTwo
    \/ Remove
    \/ Apply
    \/ Reapply

SpecApply == InitWith({"Bfv"}) /\ [][NextApply]_vars

(* --------------------------- prune: properties --------------------------- *)

\* The handles in S together with every handle from which one of them is
\* reachable along the edges of g.
RECURSIVE DependencyClosure(_, _)
DependencyClosure(g, S) ==
    LET more == S \cup {e.source : e \in {d \in Range(g.edges) : d.target \in S}}
    IN IF more = S THEN S ELSE DependencyClosure(g, more)

\* The circuit prune returned holds exactly the nodes S of the pruned circuit,
\* in handle order with their operations, and exactly the edges of the pruned
\* circuit between nodes of S, each with its role.
PrunedIsExactly(S) ==
    LET ids == Ascending(S)
        renumber(h) == (CHOOSE i \in 1..Len(ids) : ids[i] = h) - 1
        between == SelectSeq(ir.edges, LAMBDA e : e.source \in S /\ e.target \in S)
        expected == [i \in 1..Len(between) |->
                       [source |-> renumber(between[i].source),
                        target |-> renumber(between[i].target),
                        weight |-> between[i].weight]]
    IN /\ ~pruned.panicked
       /\ pruned.circuit.scheme = ir.scheme
       /\ pruned.circuit.nodes = [i \in 1..Len(ids) |-> ir.nodes[ids[i] + 1]]
       /\ Len(pruned.circuit.edges) = Len(expected)
       /\ Range(pruned.circuit.edges) = Range(expected)

\* C8: for every acyclic circuit and every keep list, prune returns exactly the
\* keep nodes and their transitive dependencies, with exactly the original edges
\* between retained nodes, operations and edge roles unchanged.
C8_PruneReturnsDependencyClosure ==
    pc = "pruned" => PrunedIsExactly(DependencyClosure(ir, Range(keep)))

\* The same structure built without the removed nodes: the live nodes of g in
\* handle order with no vacant handle, and the edges between them.
BuiltWithoutRemoved(g) ==
    LET cg == GraphFrom(g)
    IN [scheme |-> g.scheme, nodes |-> cg.nodes, free |-> <<>>, edges |-> cg.edges]

\* The handle that node h of g has in BuiltWithoutRemoved(g).
HandleWithoutRemoved(g, h) ==
    Cardinality({k \in NodeSet(g) : k < h})

\* C9: on a circuit from which nodes have been removed (vacant handles below
\* live ones included), prune(keep) returns the keep nodes and their transitive
\* dependencies: the same result as pruning the same structure built without the
\* removed nodes.
C9_PruneAfterRemovalsAsIfBuiltWithout ==
    pc = "pruned" =>
        /\ PrunedIsExactly(DependencyClosure(ir, Range(keep)))
        /\ pruned = prune(BuiltWithoutRemoved(ir),
                          [i \in 1..Len(keep) |-> HandleWithoutRemoved(ir, keep[i])])

\* C10: for a keep list naming several nodes, a node is retained iff it is a
\* keep node or a transitive dependency of at least one keep node: the result is
\* the union of the closures of the individual keep nodes.
C10_SeveralKeepNodesGiveUnionOfClosures ==
    (pc = "pruned" /\ Cardinality(Range(keep)) >= 2) =>
        PrunedIsExactly(UNION {DependencyClosure(ir, {k}) : k \in Range(keep)})

\* C11: for every acyclic circuit, prune with an empty keep list returns a
\* circuit with no nodes and no edges.
C11_EmptyKeepGivesEmptyCircuit ==
    (pc = "pruned" /\ keep = <<>>) =>
        /\ ~pruned.panicked
        /\ pruned.circuit.nodes = <<>>
        /\ pruned.circuit.edges = <<>>

\* prune was called with no keep handles on a circuit that has edges and a
\* vacant handle below a live one.
C11_Witness ==
    /\ pc = "pruned" /\ keep = <<>> /\ ~pruned.panicked
    /\ ir.edges # <<>>
    /\ \E h \in NodeSet(ir) : \E v \in 0..h : ~contains_node(ir, v)

\* Circuit::eq: is_isomorphic_matching on the compacted graphs, node weights and
\* edge weights compared with ==: a bijection of the nodes that carries the
\* operations and the role-tagged edges of a onto those of b.
Isomorphic(a, b) ==
    LET ga == GraphFrom(a)
        gb == GraphFrom(b)
        n == Len(ga.nodes)
    IN /\ Len(gb.nodes) = n
       /\ Len(ga.edges) = Len(gb.edges)
       /\ \E f \in [0..(n - 1) -> 0..(n - 1)] :
             /\ \A i, j \in 0..(n - 1) : f[i] = f[j] => i = j
             /\ \A i \in 0..(n - 1) : ga.nodes[i + 1] = gb.nodes[f[i] + 1]
             /\ {[source |-> f[e.source], target |-> f[e.target], weight |-> e.weight] :
                    e \in Range(ga.edges)} = Range(gb.edges)

\* The keep handles remapped to the corresponding nodes of the pruned circuit:
\* the nodes of the dependency closure S keep their order.
Remapped(S, nodes) ==
    [i \in 1..Len(nodes) |-> Cardinality({h \in S : h < nodes[i]})]

\* C12: prune is idempotent up to isomorphism: pruning the circuit prune returned
\* again, with the keep handles remapped to the corresponding nodes of the
\* result, yields a circuit isomorphic to it.
C12_PruneIdempotent ==
    (pc = "pruned" /\ ~pruned.panicked) =>
        LET remapped == Remapped(DependencyClosure(ir, Range(keep)), keep)
            again == prune(pruned.circuit, remapped)
        IN /\ \A i \in 1..Len(remapped) : contains_node(pruned.circuit, remapped[i])
           /\ ~again.panicked
           /\ Isomorphic(again.circuit, pruned.circuit)

\* C13: prune is a pure function of its input: the step that calls it leaves the
\* source circuit (nodes, edges, handles, scheme) as it was, the result is the
\* value of prune on the source circuit and the keep list, and the circuit
\* returned carries the scheme of the source.
C13_PruneLeavesSourceAndKeepsScheme ==
    [][(pc = "build" /\ pc' = "pruned") =>
          /\ ir' = ir
          /\ pruned' = prune(ir', keep')
          /\ ~pruned'.panicked => pruned'.circuit.scheme = ir.scheme]_vars

\* prune returned a smaller circuit for a source circuit whose scheme is not Bfv.
C13_Witness ==
    /\ pc = "pruned" /\ ~pruned.panicked
    /\ ir.scheme = "Ckks"
    /\ pruned.circuit.nodes # <<>>
    /\ Len(pruned.circuit.nodes) < Cardinality(NodeSet(ir))

(* --------------------------- apply: properties --------------------------- *)

\* Whether a transform creates a node (its match arm yields Some).
Creates(t) ==
    t.kind \in {"AppendAdd", "AppendMultiply", "AppendInputCiphertext",
                "AppendOutputCiphertext", "AppendRelinearize", "AppendSub",
                "AppendNegate"}

\* The TransformNodeIndex operands a transform has.
OperandsOf(t) ==
    CASE t.kind \in {"AppendAdd", "AppendMultiply", "AppendSub", "RemoveEdge", "AddEdge"} ->
           {t.x, t.y}
      [] t.kind = "AppendInputCiphertext" -> {}
      [] OTHER -> {t.x}

\* The entries inserted_node_ids held when the apply that ran was called.
Recorded == Len(list.inserted_node_ids) - Len(list.transforms)

\* The circuit and inserted_node_ids after the first j transforms of the apply
\* that ran.
AfterFirst(j) ==
    apply_loop(SubSeq(list.transforms, 1, j),
               [ir |-> before,
                inserted_node_ids |-> SubSeq(list.inserted_node_ids, 1, Recorded),
                panicked |-> FALSE])

\* What transform t does to circuit c once its operands are the handles hx, hy,
\* as a call of the builder, of remove_node or of the graph: the circuit, and the
\* handle of the node created (None when none is).
Performed(t, c, hx, hy) ==
    CASE t.kind = "AppendInputCiphertext" ->
           LET r == append_input_ciphertext(c, t.id) IN [ir |-> r.ir, id |-> r.new_node]
      [] t.kind = "AppendNegate" ->
           LET r == append_negate(c, hx) IN [ir |-> r.ir, id |-> r.new_node]
      [] t.kind = "AppendAdd" ->
           LET r == append_add(c, hx, hy) IN [ir |-> r.ir, id |-> r.new_node]
      [] t.kind = "RemoveNode" -> [ir |-> remove_node(c, hx), id |-> None]
      [] t.kind = "RemoveEdge" ->
           [ir |-> remove_edge(c, find_edge(c, hx, hy)), id |-> None]
      [] t.kind = "AddEdge" -> [ir |-> update_edge(c, hx, hy, t.weight).g, id |-> None]

\* Every step of the apply that ran did what its transform says, in push order,
\* a DeferredIndex operand standing for the handle of the node that the
\* transform at that position created during this apply, a handle for itself.
AppliedInPushOrder ==
    LET T == list.transforms
        ids == SubSeq(list.inserted_node_ids, Recorded + 1, Len(list.inserted_node_ids))
        handle(o) == IF o.deferred THEN ids[o.i + 1] ELSE o.i
    IN /\ Recorded >= 0
       /\ ir = AfterFirst(Len(T)).ir
       /\ \A j \in 1..Len(T) :
             LET pre == AfterFirst(j - 1).ir
                 post == AfterFirst(j).ir
                 done == Performed(T[j], pre, handle(T[j].x), handle(T[j].y))
             IN /\ \A o \in OperandsOf(T[j]) :
                      o.deferred => o.i + 1 < j /\ Creates(T[o.i + 1])
                /\ post = done.ir
                /\ ids[j] = done.id
                /\ Creates(T[j]) => ids[j] \in NodeSet(post) \ NodeSet(pre)

\* C14: apply performs the transforms in push order; a DeferredIndex operand (the
\* value push returned for an earlier node-creating transform) resolves to the
\* handle of the node that transform created during this apply, and an operand
\* given as a handle is used unchanged.
C14_ApplyInPushOrderResolvingDeferred ==
    pc \in {"applied", "reapplied"} => AppliedInPushOrder

\* C14 on a list applied for the first time.
C14_FreshListAppliedInPushOrder ==
    pc = "applied" => AppliedInPushOrder

\* apply has run a list in which an AppendAdd names the node of an earlier
\* transform by DeferredIndex and an existing node by handle, the deferred number
\* differing from the handle it resolved to.
C14_Witness ==
    /\ pc = "applied"
    /\ \E j \in 1..Len(list.transforms) :
          LET t == list.transforms[j] IN
          /\ t.kind = "AppendAdd"
          /\ t.x.deferred /\ ~t.y.deferred
          /\ list.inserted_node_ids[t.x.i + 1] # t.x.i
          /\ \E e \in Range(ir.edges) :
                /\ e.source = list.inserted_node_ids[t.x.i + 1]
                /\ e.target = list.inserted_node_ids[j]

\* Transform j of T has a DeferredIndex operand that is not a backward reference
\* to a node-creating transform: its own position or a later one, past the end
\* of the list, or the position of a transform that creates no node.
BadDeferredAt(T, j) ==
    \E o \in OperandsOf(T[j]) :
        /\ o.deferred
        /\ IF o.i + 1 < j THEN ~Creates(T[o.i + 1]) ELSE TRUE

\* C15: apply on a freshly built list aborts whenever some transform has a
\* DeferredIndex operand that is not a backward reference to a node-creating
\* transform; that transform is never completed with the operand resolved to
\* some handle.
C15_BadDeferredIndexAborts ==
    [][(pc = "build" /\ pc' \in {"applied", "panic"}) =>
          \A j \in 1..Len(list'.transforms) :
              BadDeferredAt(list'.transforms, j) =>
                  /\ pc' = "panic"
                  /\ Len(list'.inserted_node_ids) < j]_vars

\* apply panicked at the second transform of a fresh list, whose DeferredIndex
\* names the RemoveNode before it.
C15_Witness ==
    /\ pc = "panic"
    /\ Len(list.transforms) = 2 /\ Len(list.inserted_node_ids) = 1
    /\ list.transforms[1].kind = "RemoveNode"
    /\ list.transforms[2].kind = "AppendNegate"
    /\ list.transforms[2].x = DeferredIndex(0)

\* C16: a RemoveEdge(x, y) transform aborts whenever the graph has no edge
\* directed from x to y at the moment it is applied (an edge from y to x does not
\* count), and that transform leaves the graph as it found it.
C16_RemoveMissingEdgeAborts ==
    [][(pc \in {"build", "applied"} /\ pc' \in {"applied", "reapplied", "panic"}) =>
          \A j \in 1..Len(list'.transforms) :
              LET t == list'.transforms[j]
                  pre == apply_loop(SubSeq(list'.transforms, 1, j - 1),
                            [ir |-> ir,
                             inserted_node_ids |->
                                IF pc = "build" THEN <<>> ELSE list.inserted_node_ids,
                             panicked |-> FALSE])
                  mx == materialize_index(pre.inserted_node_ids, t.x)
                  my == materialize_index(pre.inserted_node_ids, t.y)
              IN (/\ t.kind = "RemoveEdge"
                  /\ ~pre.panicked /\ ~mx.panicked /\ ~my.panicked
                  /\ ~\E e \in Range(pre.ir.edges) :
                        e.source = mx.index /\ e.target = my.index) =>
                     /\ pc' = "panic"
                     /\ ir' = pre.ir
                     /\ list'.inserted_node_ids = pre.inserted_node_ids]_vars

\* apply panicked at a RemoveEdge(a, b) of a fresh list while the graph holds the
\* edge from b to a and none from a to b.
C16_Witness ==
    /\ pc = "panic"
    /\ Len(list.inserted_node_ids) < Len(list.transforms)
    /\ LET t == list.transforms[Len(list.inserted_node_ids) + 1] IN
       /\ t.kind = "RemoveEdge"
       /\ ~t.x.deferred /\ ~t.y.deferred
       /\ \E e \in Range(ir.edges) : e.source = t.y.i /\ e.target = t.x.i
       /\ ~\E e \in Range(ir.edges) : e.source = t.x.i /\ e.target = t.y.i

(* --------------------------- builders: properties ------------------------ *)

\* The edges of circuit c that end at node h.
Inbound(c, h) == SelectSeq(c.edges, LAMBDA e : e.target = h)

\* The builder step from ir to ir' created exactly one node, h, with operation
\* op, and wired to it exactly the inbound edges ins (source and role), one edge
\* for each.
BuiltNode(h, op, ins) ==
    /\ h \notin NodeSet(ir)
    /\ NodeSet(ir') = NodeSet(ir) \cup {h}
    /\ ir'.nodes[h + 1] = op
    /\ Len(Inbound(ir', h)) = Len(ins)
    /\ \A i \in 1..Len(ins) :
          \E e \in Range(Inbound(ir', h)) :
              e.source = ins[i].source /\ e.weight = ins[i].weight

\* C17: every append_* builder creates exactly one new node with the matching
\* operation and returns its handle; a two-input builder leaves it with exactly
\* two inbound edges, LeftOperand from x and RightOperand from y (x = y
\* included), a one-input builder with exactly one UnaryOperand edge from x, a
\* zero-input builder with none.
C17_BuildersWireArityEdges ==
    [][(pc = "build" /\ pc' = "build") =>
          /\ \A op \in ZeroOps :
                LET r == append_0_input_node(ir, op)
                IN ir' = r.ir => BuiltNode(r.new_node, op, <<>>)
          /\ \A op \in OneOps, x \in NodeSet(ir) :
                LET r == append_1_input_node(ir, op, x)
                IN ir' = r.ir =>
                      BuiltNode(r.new_node, op,
                                <<[source |-> x, weight |-> "UnaryOperand"]>>)
          /\ \A op \in TwoOps, x \in NodeSet(ir), y \in NodeSet(ir) :
                LET r == append_2_input_node(ir, op, x, y)
                IN ir' = r.ir =>
                      BuiltNode(r.new_node, op,
                                <<[source |-> x, weight |-> "LeftOperand"],
                                  [source |-> y, weight |-> "RightOperand"]>>)]_vars

\* C18: remove_node(h) deletes node h and every edge with h as source or target
\* and changes nothing else: every other live node keeps its handle and
\* operation, every edge between other nodes its endpoints and role.
C18_RemoveNodeTouchesOnlyTheNode ==
    [][(pc = "build" /\ pc' = "build") =>
          \A h \in NodeSet(ir) :
              ir' = remove_node(ir, h) =>
                  /\ NodeSet(ir') = NodeSet(ir) \ {h}
                  /\ \A k \in NodeSet(ir') : ir'.nodes[k + 1] = ir.nodes[k + 1]
                  /\ ir'.edges =
                        SelectSeq(ir.edges, LAMBDA e : e.source # h /\ e.target # h)
                  /\ ir'.scheme = ir.scheme]_vars

\* A node was removed whose handle lies below that of a live node which still
\* has an inbound edge.
C18_Witness ==
    /\ pc = "build"
    /\ ir.free # <<>>
    /\ \E k \in NodeSet(ir) : k > Head(ir.free) /\ Inbound(ir, k) # <<>>

\* C19: handles stay valid across insertions: after an append_* call every node
\* that existed before has the same handle, operation and inbound edges, no edge
\* that existed has changed, and the only additions are the new node and its
\* inbound edges.
C19_AppendKeepsHandlesAndEdges ==
    [][(/\ pc = "build" /\ pc' = "build"
        /\ Cardinality(NodeSet(ir')) > Cardinality(NodeSet(ir))) =>
          /\ \A k \in NodeSet(ir) :
                /\ k \in NodeSet(ir')
                /\ ir'.nodes[k + 1] = ir.nodes[k + 1]
                /\ Inbound(ir', k) = Inbound(ir, k)
          /\ Cardinality(NodeSet(ir') \ NodeSet(ir)) = 1
          /\ Len(ir'.edges) >= Len(ir.edges)
          /\ SubSeq(ir'.edges, 1, Len(ir.edges)) = ir.edges
          /\ \A i \in (Len(ir.edges) + 1)..Len(ir'.edges) :
                /\ ir'.edges[i].target \in NodeSet(ir') \ NodeSet(ir)
                /\ ir'.edges[i].source \in NodeSet(ir)]_vars

\* An append_* call reused a vacated handle below live nodes for a node with two
\* operands: the new node's handle is lower than those of its operands.
C19_Witness ==
    /\ pc = "build"
    /\ \E h \in NodeSet(ir) :
          /\ Len(Inbound(ir, h)) = 2
          /\ \A e \in Range(Inbound(ir, h)) : e.source > h

\* Whether circuit c has a directed cycle (a self-loop included): some edge ends
\* at a node from which its source is reachable.
HasCycle(c) ==
    \E e \in Range(c.edges) : e.target \in DependencyClosure(c, {e.source})

\* C20: the circuit graph is acyclic in every reachable state: no sequence of
\* append_* calls, remove_node calls and applied transforms produces a directed
\* cycle or a self-loop.
C20_GraphAlwaysAcyclic == ~HasCycle(ir)

(* ------------------------------ eq, get_outputs, validate ---------------- *)

\* The weights of the edges of the compact graph g from node u to node v.
weights_between(g, u, v) ==
    {e.weight : e \in {d \in Range(g.edges) : d.source = u /\ d.target = v}}

\* is_isomorphic_matching at work: m[i] is the node of gb matched with node i - 1
\* of ga; the next node of ga is matched with an unused node of gb of equal
\* weight (|n1, n2| n1 == n2) whose edges to and from the nodes matched so far,
\* itself included, carry equal weights (|e1, e2| e1 == e2), until every node is
\* matched.
RECURSIVE try_match(_, _, _)
try_match(ga, gb, m) ==
    IF Len(m) = Len(ga.nodes) THEN TRUE
    ELSE LET i == Len(m) IN
         \E j \in 0..(Len(gb.nodes) - 1) :
            /\ j \notin Range(m)
            /\ ga.nodes[i + 1] = gb.nodes[j + 1]
            /\ LET m2 == Append(m, j) IN
               /\ \A k \in 0..i :
                     /\ weights_between(ga, i, k) = weights_between(gb, j, m2[k + 1])
                     /\ weights_between(ga, k, i) = weights_between(gb, m2[k + 1], j)
               /\ try_match(ga, gb, m2)

\* eq that compares the node and edge tables as they stand.
eq_by_handle(a, b) == a.nodes = b.nodes /\ Range(a.edges) = Range(b.edges)

\* eq that also compares the scheme tags.
eq_with_scheme(a, b) ==
    /\ a.scheme = b.scheme
    /\ Len(GraphFrom(a).nodes) = Len(GraphFrom(b).nodes)
    /\ Len(GraphFrom(a).edges) = Len(GraphFrom(b).edges)
    /\ try_match(GraphFrom(a), GraphFrom(b), <<>>)

\* impl PartialEq for Circuit: is_isomorphic_matching on Graph::from of the two
\* graphs; the scheme is not compared.
eq(a, b) ==
    LET ga == GraphFrom(a)
        gb == GraphFrom(b)
    IN /\ Len(ga.nodes) = Len(gb.nodes)
       /\ Len(ga.edges) = Len(gb.edges)
       /\ try_match(ga, gb, <<>>)

\* The circuit c with the same structure under other handles: slot h becomes
\* slot p[h + 1].
Renumbered(c, p) ==
    [scheme |-> c.scheme,
     nodes |-> [i \in 1..Len(c.nodes) |->
                  c.nodes[(CHOOSE h \in 0..(Len(c.nodes) - 1) : p[h + 1] = i - 1) + 1]],
     free |-> [i \in 1..Len(c.free) |-> p[c.free[i] + 1]],
     edges |-> [i \in 1..Len(c.edges) |->
                  [source |-> p[c.edges[i].source + 1],
                   target |-> p[c.edges[i].target + 1],
                   weight |-> c.edges[i].weight]]]

\* The renumberings of the slots of c.
Renumberings(c) ==
    {p \in [1..Len(c.nodes) -> 0..(Len(c.nodes) - 1)] :
        \A i, j \in 1..Len(c.nodes) : p[i] = p[j] => i = j}

\* An operation with another tag, and one with another payload.
OtherTag(op) ==
    IF op.tag = "Negate" THEN Operation("OutputCiphertext", op.id)
    ELSE Operation("Negate", op.id)

OtherPayload(op) == Operation(op.tag, op.id + 1)

\* The circuits c is compared with, each with what distinguishes it from c: the
\* same structure renumbered ("same"), without its vacant handles ("compact"),
\* under another scheme ("scheme"), or renumbered with one node's operation tag
\* ("tag"), one input's payload ("payload") or one edge's role ("role") changed.
Others(c) ==
    UNION {
        LET d == Renumbered(c, p) IN
        {[kind |-> "same", other |-> d],
         [kind |-> "compact", other |-> BuiltWithoutRemoved(d)]}
        \cup {[kind |-> "scheme", other |-> [d EXCEPT !.scheme = sch]] :
                 sch \in SchemeType \ {c.scheme}}
        \cup {[kind |-> "tag", other |-> [d EXCEPT !.nodes[h + 1] = OtherTag(@)]] :
                 h \in NodeSet(d)}
        \cup {[kind |-> "payload", other |-> [d EXCEPT !.nodes[h + 1] = OtherPayload(@)]] :
                 h \in {k \in NodeSet(d) : d.nodes[k + 1].tag = "InputCiphertext"}}
        \cup {[kind |-> "role", other |-> [d EXCEPT !.edges[q[1]].weight = q[2]]] :
                 q \in {r \in (1..Len(d.edges)) \X EdgeInfo :
                           r[2] # d.edges[r[1]].weight}}
      : p \in Renumberings(c)}

\* ir == other for one of the circuits of Others(ir).
Eq ==
    /\ pc = "build"
    /\ \E o \in Others(ir) :
          returned' = [fn |-> "eq", kind |-> o.kind, other |-> o.other,
                       value |-> eq(ir, o.other)]
    /\ pc' = "called"
    /\ UNCHANGED <<ir, travVars, pruneVars, applyVars, twinVars, calcVars>>

\* Circuit::get_outputs with the iterator run backwards.
get_outputs_reversed(c) ==
    Reverse(SelectSeq(node_identifiers(c),
                      LAMBDA g : c.nodes[g + 1].tag = "OutputCiphertext"))

\* Circuit::get_outputs, the iterator collected: graph.node_indices() filtered on
\* the operation being OutputCiphertext.
get_outputs(c) ==
    SelectSeq(node_identifiers(c), LAMBDA g : c.nodes[g + 1].tag = "OutputCiphertext")

\* A call of get_outputs whose iterator is run to its end: on the circuit as
\* built, or once more after such a call.
GetOutputs ==
    /\ pc = "build" \/ (pc = "called" /\ returned.fn = "get_outputs")
    /\ returned' = [fn |-> "get_outputs", value |-> get_outputs(ir)]
    /\ pc' = "called"
    /\ UNCHANGED <<ir, travVars, pruneVars, applyVars, twinVars, calcVars>>

\* The error lists validation::validate_ir may report: the validator is a
\* black box returning a possibly empty list of errors.
ValidatorReports == {<<>>, <<"e1">>, <<"e1", "e2">>, <<"e2", "e1">>}

\* validate keeping only the first error of the list.
validate_first_error(c, errors) ==
    IF Len(errors) > 0
    THEN [ok |-> FALSE, error |-> [tag |-> "IRError", errors |-> <<errors[1]>>]]
    ELSE [ok |-> TRUE, error |-> [tag |-> "none", errors |-> <<>>]]

\* Circuit::validate, errors being what validation::validate_ir(self) returned:
\* Err(Error::IRError(errors)) when the list is not empty, else Ok(()).
validate(c, errors) ==
    IF Len(errors) > 0
    THEN [ok |-> FALSE, error |-> [tag |-> "IRError", errors |-> errors]]
    ELSE [ok |-> TRUE, error |-> [tag |-> "none", errors |-> <<>>]]

\* A call of validate.
Validate ==
    /\ pc = "build"
    /\ \E errors \in ValidatorReports :
          returned' = [fn |-> "validate", errors |-> errors,
                       value |-> validate(ir, errors)]
    /\ pc' = "called"
    /\ UNCHANGED <<ir, travVars, pruneVars, applyVars, twinVars, calcVars>>

\* Circuits built with the builders and remove_node, then compared, asked for
\* their outputs or validated.
NextQuery ==
    \/ AppendZero
    \/ AppendOne
    \/ AppendTwo
    \/ Remove
    \/ Eq
    \/ GetOutputs
    \/ Validate

SpecQuery == InitWith({"Bfv"}) /\ [][NextQuery]_vars

(* ------------------- eq, get_outputs, validate: properties --------------- *)

\* C21: circuit equality is label-preserving graph isomorphism: two circuits
\* compare equal iff a bijection between their live nodes preserves operations
\* (tag and payload) and maps edges to edges of the same role, whatever the
\* handle numbering and the vacant handles; so a circuit equals itself
\* renumbered or compacted, and differs once a single operation tag, payload or
\* edge role is changed.
C21_EqIsLabelPreservingIsomorphism ==
    (pc = "called" /\ returned.fn = "eq") =>
        /\ returned.value = Isomorphic(ir, returned.other)
        /\ returned.kind \in {"same", "compact", "scheme"} => returned.value
        /\ returned.kind \in {"tag", "payload", "role"} => ~returned.value

\* A circuit with a vacant handle and an edge was compared with itself under
\* other handles and found equal, though the node tables differ.
C21_Witness ==
    /\ pc = "called" /\ returned.fn = "eq" /\ returned.kind = "same"
    /\ returned.value
    /\ ir.free # <<>> /\ ir.edges # <<>>
    /\ returned.other.nodes # ir.nodes

\* Two circuits were found unequal that differ in the role of one edge only.
C21_WitnessRole ==
    /\ pc = "called" /\ returned.fn = "eq" /\ returned.kind = "role"
    /\ ~returned.value

\* C22: get_outputs yields exactly the handles of the live nodes whose operation
\* is OutputCiphertext, each once, in ascending handle order, never a removed
\* node, and the same sequence when called again on the unchanged circuit.
C22_GetOutputsAscendingLiveOutputs ==
    [][(pc' = "called" /\ returned'.fn = "get_outputs") =>
          LET v == returned'.value IN
          /\ ir' = ir
          /\ Range(v) = {h \in NodeSet(ir) : ir.nodes[h + 1].tag = "OutputCiphertext"}
          /\ \A i, j \in 1..Len(v) : i < j => v[i] < v[j]
          /\ pc = "called" => v = returned.value]_vars

\* get_outputs yielded two handles on a circuit from which a node was removed.
C22_Witness ==
    /\ pc = "called" /\ returned.fn = "get_outputs"
    /\ Len(returned.value) = 2
    /\ ir.free # <<>>

\* C23: validate returns Ok exactly when the validator reports an empty error
\* list, otherwise an IRError carrying the validator's complete list; the
\* circuit is left unchanged either way.
C23_ValidateSurfacesValidatorErrors ==
    [][(pc' = "called" /\ returned'.fn = "validate") =>
          /\ ir' = ir
          /\ returned'.value.ok <=> returned'.errors = <<>>
          /\ ~returned'.value.ok =>
                /\ returned'.value.error.tag = "IRError"
                /\ returned'.value.error.errors = returned'.errors]_vars

\* validate returned an IRError with the two errors the validator reported on a
\* circuit with nodes.
C23_Witness ==
    /\ pc = "called" /\ returned.fn = "validate"
    /\ ~returned.value.ok
    /\ returned.value.error.errors = <<"e2", "e1">>
    /\ NodeSet(ir) # {}

(* --------------------------- apply: recorded handles --------------------- *)

\* The operation tag of the node an Append* transform creates.
CreatedTag(t) ==
    CASE t.kind = "AppendAdd" -> "Add"
      [] t.kind = "AppendMultiply" -> "Multiply"
      [] t.kind = "AppendInputCiphertext" -> "InputCiphertext"
      [] t.kind = "AppendOutputCiphertext" -> "OutputCiphertext"
      [] t.kind = "AppendRelinearize" -> "Relinearize"
      [] t.kind = "AppendSub" -> "Sub"
      [] t.kind = "AppendNegate" -> "Negate"

\* C24: after apply completes on a freshly built list of n transforms the
\* recorded-handle list has exactly n entries; entry i is the handle of the node
\* transform i created for an Append* transform, none for a RemoveNode,
\* RemoveEdge or AddEdge transform.
C24_RecordedHandlesParallelTransforms ==
    pc = "applied" =>
        LET T == list.transforms
            ids == list.inserted_node_ids
        IN /\ Len(ids) = Len(T)
           /\ \A j \in 1..Len(T) :
                 IF Creates(T[j])
                 THEN /\ ids[j] \in NodeSet(AfterFirst(j).ir)
                      /\ ids[j] \notin NodeSet(AfterFirst(j - 1).ir)
                      /\ AfterFirst(j).ir.nodes[ids[j] + 1].tag = CreatedTag(T[j])
                 ELSE ids[j] = None

\* apply completed on a fresh list of a RemoveNode and an Append transform, the
\* created node taking the handle the removal vacated.
C24_Witness ==
    /\ pc = "applied"
    /\ Len(list.transforms) = 2
    /\ list.transforms[1].kind = "RemoveNode"
    /\ list.transforms[2].kind = "AppendInputCiphertext"
    /\ list.inserted_node_ids[1] = None
    /\ list.inserted_node_ids[2] < Len(before.nodes)
    /\ list.inserted_node_ids[2] \notin NodeSet(AfterFirst(1).ir)

(* --------------------------- traversal: order ---------------------------- *)

\* C25: with callbacks that make no edits the visiting order is deterministic
\* and last-in-first-out: the initially ready nodes are stacked in ascending
\* handle order (the highest handle is visited first), each step hands over the
\* top of the stack, and the nodes a step makes ready (the next-direction
\* neighbors of the visited node whose previous-direction neighbors are all
\* visited) go on top of every node already waiting.
C25_EmptyCallbacksVisitLastInFirstOut ==
    [][/\ (pc = "build" /\ pc' = "traverse" /\ callback' = "empty") =>
             /\ Range(ready_nodes') = {h \in NodeSet(ir) : PrevSet(ir, forward', h) = {}}
             /\ \A i, j \in 1..Len(ready_nodes') :
                   i < j => ready_nodes'[i] < ready_nodes'[j]
       /\ (pc = "traverse" /\ callback = "empty" /\ order' # order) =>
             LET top == Len(ready_nodes)
                 n == ready_nodes[top]
                 pushed == SubSeq(ready_nodes', top, Len(ready_nodes'))
             IN /\ order' = Append(order, [node |-> n, live |-> TRUE])
                /\ Len(ready_nodes') >= top - 1
                /\ SubSeq(ready_nodes', 1, top - 1) = SubSeq(ready_nodes, 1, top - 1)
                /\ Range(pushed) =
                      {m \in NextSet(ir, forward, n) :
                          /\ m \notin ready
                          /\ PrevSet(ir, forward, m) \subseteq visited \cup {n}}
                /\ Cardinality(Range(pushed)) = Len(pushed)]_vars

\* A finished traversal of three nodes in which the node made ready by the
\* first step was visited before a node that had been waiting from the start.
C25_Witness ==
    /\ pc = "done" /\ callback = "empty"
    /\ Len(order) = 3
    /\ order[2].node \notin Range(sources(ir0, forward))
    /\ order[3].node \in Range(sources(ir0, forward))
    /\ order[3].node < order[1].node

(* --------------------------- traversal: frame ---------------------------- *)

\* The edges of a circuit as (source, target, role) triples.
EdgeTriples(c) == {<<e.source, e.target, e.weight>> : e \in Range(c.edges)}

\* C30: a traversal whose callbacks all return empty transform lists leaves
\* the circuit unchanged: during and after forward_traverse/reverse_traverse
\* the live handles, every node's operation, every edge with its role and the
\* scheme tag are what they were when the traversal was called.
C30_EmptyCallbacksLeaveCircuitUnchanged ==
    (pc \in {"traverse", "done"} /\ callback = "empty") =>
        /\ NodeSet(ir) = NodeSet(ir0)
        /\ \A h \in NodeSet(ir0) : ir.nodes[h + 1] = ir0.nodes[h + 1]
        /\ EdgeTriples(ir) = EdgeTriples(ir0)
        /\ Len(ir.edges) = Len(ir0.edges)
        /\ ir.scheme = ir0.scheme

\* A finished traversal of a circuit with an Add node and its two operand edges.
C30_Witness ==
    /\ pc = "done" /\ callback = "empty"
    /\ Len(order) = 3
    /\ \E e, f \in Range(ir0.edges) :
          /\ e.weight = "LeftOperand" /\ f.weight = "RightOperand"
          /\ e.target = f.target /\ e.source # f.source

(* ---------------------- traversal: any callback -------------------------- *)

\* Traversals whose callbacks return any single transform.
NextAny ==
    \/ AppendZero
    \/ AppendOne
    \/ AppendTwo
    \/ StartTraverse({"any"}, MaxSeed)
    \/ Visit
    \/ Return

SpecAny == InitWith({"Bfv"}) /\ [][NextAny]_vars

\* C28: within one traversal no handle is passed to the callback more than
\* once, whatever transforms the callbacks return (RemoveNode, AddEdge and
\* RemoveEdge included); every handle enters the ready collection at most once
\* (a handle that entered is waiting once on the stack or visited, never both,
\* and never leaves ready), and visited is a subset of the handles that entered.
C28_NoHandlePassedTwice ==
    /\ [](pc \in {"traverse", "done", "panic"} =>
            /\ \A i, j \in 1..Len(order) : i < j => order[i].node # order[j].node
            /\ \A i, j \in 1..Len(ready_nodes) : i < j => ready_nodes[i] # ready_nodes[j]
            /\ visited = {order[i].node : i \in 1..Len(order)}
            /\ visited \subseteq ready
            /\ Range(ready_nodes) \cap visited = {}
            /\ Range(ready_nodes) \cup visited = ready)
    /\ [][pc = "traverse" => ready \subseteq ready']_vars

\* A finished traversal in which a handle was passed, its node removed, and the
\* handle taken again by a node a later callback appended.
C28_Witness ==
    /\ pc = "done" /\ callback = "any"
    /\ \E i \in 1..Len(order) :
          LET h == order[i].node
          IN /\ h \in NodeSet(ir)
             /\ born[h + 1] > i
             /\ Len(order) > i

(* ------------------- traversal: append-only callbacks -------------------- *)

\* C29: in a traversal whose callbacks only append nodes, at the moment a node
\* is passed to the callback every previous-direction neighbor it has in the
\* graph at that moment has already been visited, in forward and in reverse
\* mode (where an appended consumer is a new previous-direction neighbor of its
\* operands).
C29_AppendOnlyPassesAfterAllPrevious ==
    [][(pc = "traverse" /\ callback = "append" /\ order' # order) =>
          LET n == order'[Len(order')].node
          IN /\ n = ready_nodes[Len(ready_nodes)]
             /\ PrevSet(ir, forward, n) \subseteq visited]_vars

\* A reverse traversal passed a node that was ready from the start and had by
\* then acquired an appended consumer as a previous-direction neighbor.
C29_Witness ==
    /\ pc \in {"traverse", "done"} /\ callback = "append" /\ ~forward
    /\ \E i \in 1..Len(order) :
          LET w == order[i].node
          IN /\ w \in Range(sources(ir0, forward))
             /\ \E p \in PrevSet(ir, forward, w) :
                   born[p + 1] > 0 /\ born[p + 1] < i

(* ----------------------------- cyclic graphs ----------------------------- *)

\* The most edges a circuit may hold when the builder adds one more edge.
MaxEdges == 2

\* The builder applying a TransformList that holds one AddEdge between live
\* handles: the way a circuit acquires a cycle.
ApplyAddEdge ==
    /\ pc = "build"
    /\ Len(ir.edges) < MaxEdges
    /\ \E x \in NodeSet(ir), y \in NodeSet(ir), w \in EdgeInfo :
          LET r == apply(<<AddEdge(NodeIndex(x), NodeIndex(y), w)>>, ir)
          IN /\ ~r.panicked
             /\ ir' = r.ir
    /\ UNCHANGED <<pc, travVars, pruneVars, applyVars, callVars, twinVars, calcVars>>

\* Circuits with any edges, cycles included, then traversed with callbacks that
\* return empty lists, or pruned.
NextCyclic ==
    \/ AppendZero
    \/ AppendOne
    \/ AppendTwo
    \/ ApplyAddEdge
    \/ StartTraverse({"empty"}, MaxBuild)
    \/ Visit
    \/ Return
    \/ Prune

\* traverse runs its loop to the end and returns: weak fairness of its steps.
SpecCyclic ==
    InitWith({"Bfv"}) /\ [][NextCyclic]_vars /\ WF_vars(Visit) /\ WF_vars(Return)

\* The nodes from which a node of S is reached walking in the direction of the
\* traversal, S included.
RECURSIVE PrevClosure(_, _, _)
PrevClosure(c, fwd, S) ==
    LET more == S \cup UNION {PrevSet(c, fwd, n) : n \in S}
    IN IF more = S THEN S ELSE PrevClosure(c, fwd, more)

\* Whether n lies on a directed cycle.
OnCycle(c, n) == n \in PrevClosure(c, TRUE, PrevSet(c, TRUE, n))

\* The nodes on a cycle or reached from one in the direction of the traversal.
Stuck(c, fwd) ==
    {n \in NodeSet(c) : \E m \in PrevClosure(c, fwd, {n}) : OnCycle(c, m)}

\* C26 as stated: on a graph with a directed cycle neither a traversal nor
\* prune returns normally.
C26_CyclicGraphNeverReturnsNormally ==
    /\ pc = "done" => ~HasCycle(ir0)
    /\ pc = "pruned" => (HasCycle(ir) => pruned.panicked)

\* C26 as amended: on a graph with a directed cycle prune aborts with a
\* fatal error, while a traversal with callbacks that make no edits never
\* aborts and returns normally, having passed exactly the nodes that are
\* neither on a cycle nor reached from one in the direction of the traversal.
C26_CyclicGraphPruneAbortsTraverseSkips ==
    /\ [](pc = "pruned" /\ HasCycle(ir) => pruned.panicked)
    /\ [](pc # "panic")
    /\ [](pc \in {"traverse", "done"} => visited \cap Stuck(ir0, forward) = {})
    /\ [](pc = "done" => visited = NodeSet(ir0) \ Stuck(ir0, forward))
    /\ (pc = "traverse" ~> pc = "done")

\* A traversal of a circuit with a cycle returned after passing one node and
\* skipping a node on the cycle and a node that only depends on the cycle.
C26_Witness ==
    /\ pc = "done" /\ HasCycle(ir0)
    /\ visited # {}
    /\ \E n \in Stuck(ir0, forward) : OnCycle(ir0, n)
    /\ \E n \in Stuck(ir0, forward) : ~OnCycle(ir0, n)

(* ------------------- forward and reverse side by side -------------------- *)

\* The circuit with every edge turned around (the edges keep their order of
\* insertion and their roles).
Flip(c) ==
    [c EXCEPT !.edges = [i \in 1..Len(c.edges) |->
                           [source |-> c.edges[i].target,
                            target |-> c.edges[i].source,
                            weight |-> c.edges[i].weight]]]

\* The state t of a call of traverse with its position set to p.
at_pc(t, p) ==
    [ir |-> t.ir, ready |-> t.ready, visited |-> t.visited,
     ready_nodes |-> t.ready_nodes, order |-> t.order, inserted |-> t.inserted,
     pc |-> p]

\* The first call of traverse as a state of its own.
first_call ==
    [ir |-> ir, ready |-> ready, visited |-> visited, ready_nodes |-> ready_nodes,
     order |-> <<>>, inserted |-> <<>>, pc |-> pc]

\* reverse_traverse is called on the circuit and, alongside, forward_traverse on
\* the flipped circuit, with the same callback.
StartBoth(kinds, bound) ==
    /\ pc = "build"
    /\ Len(ir.nodes) <= bound
    /\ \E k \in kinds : callback' = k
    /\ forward' = FALSE
    /\ ready_nodes' = sources(ir, FALSE)
    /\ ready' = Range(sources(ir, FALSE))
    /\ visited' = {}
    /\ order' = <<>>
    /\ born' = [i \in 1..Len(ir.nodes) |-> 0]
    /\ ir0' = ir
    /\ pc' = "traverse"
    /\ twin' = traverse_start(Flip(ir), TRUE)
    /\ UNCHANGED <<ir, pruneVars, applyVars, callVars, calcVars>>

\* The first call moves to the state t after handing over n; it goes on unless
\* the sequences have parted.
first_call_stepped(n, t, parted) ==
    /\ pc' = IF parted THEN "parted" ELSE t.pc
    /\ ir' = t.ir
    /\ ready' = t.ready
    /\ visited' = t.visited
    /\ ready_nodes' = t.ready_nodes
    /\ order' = Append(order, [node |-> n, live |-> contains_node(ir, n)])
    /\ born' = [i \in 1..Len(t.ir.nodes) |->
                  IF (i - 1) \in Range(t.inserted)
                  THEN Len(order) + 1
                  ELSE IF i <= Len(born) THEN born[i] ELSE 0]

\* One iteration of the loop in each of the two calls.  The callback has been
\* handed the same handles so far; when it is handed the same handle again it
\* returns the same transforms in both calls.  When the two calls hand over
\* different handles the sequences have parted and the comparison ends.
VisitBoth ==
    /\ pc = "traverse" /\ twin.pc = "traverse"
    /\ ready_nodes # <<>> /\ twin.ready_nodes # <<>>
    /\ \E transforms \in Batches(callback, ir, Last(ready_nodes), MaxBatch) :
          IF Last(twin.ready_nodes) = Last(ready_nodes)
          THEN /\ first_call_stepped(Last(ready_nodes),
                                     traverse_step(first_call, FALSE, transforms),
                                     FALSE)
               /\ twin' = traverse_step(twin, TRUE, transforms)
          ELSE /\ first_call_stepped(Last(ready_nodes),
                                     traverse_step(first_call, FALSE, transforms),
                                     TRUE)
               /\ twin' = at_pc(traverse_step(twin, TRUE, <<>>), "parted")
    /\ UNCHANGED <<forward, callback, ir0, pruneVars, applyVars, callVars, calcVars>>

\* One of the two calls finds ready_nodes empty and returns while the other
\* hands over one more node (its callback returning an empty list): the
\* sequences have parted.
ReturnOne ==
    /\ pc = "traverse" /\ twin.pc = "traverse"
    /\ (ready_nodes = <<>>) # (twin.ready_nodes = <<>>)
    /\ IF ready_nodes = <<>>
       THEN /\ twin' = at_pc(traverse_step(twin, TRUE, <<>>), "parted")
            /\ pc' = "parted"
            /\ UNCHANGED <<ir, ready, visited, ready_nodes, order, born, calcVars>>
       ELSE /\ first_call_stepped(Last(ready_nodes),
                                  traverse_step(first_call, FALSE, <<>>), TRUE)
            /\ twin' = at_pc(twin, "parted")
    /\ UNCHANGED <<forward, callback, ir0, pruneVars, applyVars, callVars, calcVars>>

\* Both calls find ready_nodes empty and return.
ReturnBoth ==
    /\ pc = "traverse" /\ twin.pc = "traverse"
    /\ ready_nodes = <<>> /\ twin.ready_nodes = <<>>
    /\ pc' = "done"
    /\ twin' = at_pc(twin, "done")
    /\ UNCHANGED <<ir, travVars, pruneVars, applyVars, callVars, calcVars>>

\* reverse_traverse on a circuit and forward_traverse on the flipped circuit,
\* with callbacks that append nodes with any operands or that only remove nodes
\* and append inputs.
NextFlip ==
    \/ AppendZero
    \/ AppendOne
    \/ AppendTwo
    \/ StartBoth({"edgeless", "append"}, MaxSeed)
    \/ VisitBoth
    \/ ReturnOne
    \/ ReturnBoth

SpecFlip == InitWith({"Bfv"}) /\ [][NextFlip]_vars

\* The handles the first call has passed, in order.
Handles == [i \in 1..Len(order) |-> order[i].node]

\* C27 as stated: for every circuit and callback behaviour the visit sequence
\* of reverse_traverse is that of forward_traverse on the flipped circuit.
C27_ReverseIsForwardOnFlipped ==
    twin.pc # "none" => Handles = twin.order

\* C27 as amended: for every circuit and every callback behaviour whose
\* transforms name no edge and no operand (RemoveNode and input appends only,
\* or nothing), reverse_traverse passes the handles forward_traverse passes on
\* the flipped circuit, in the same order; the two circuits stay flips of each
\* other and the same handles wait in the same order.
C27_ReverseIsForwardOnFlippedWithoutEdgeEdits ==
    (twin.pc # "none" /\ callback = "edgeless") =>
        /\ Handles = twin.order
        /\ twin.ir = Flip(ir)
        /\ twin.ready_nodes = ready_nodes
        /\ twin.pc = pc

\* Both calls returned after the callback removed a node that was not yet
\* visited and appended an input, on a circuit with an edge.
C27_Witness ==
    /\ pc = "done" /\ twin.pc = "done" /\ callback = "edgeless"
    /\ ir0.edges # <<>>
    /\ Len(order) >= 2
    /\ NodeSet(ir0) \ NodeSet(ir) # {}
    /\ NodeSet(ir) \ NodeSet(ir0) # {}

(* ------------------------ traversal: termination ------------------------- *)

\* The most nodes of a circuit whose traversal is followed to its end.
MaxStart == 1

\* Traversals whose callbacks return any single transform, on circuits of at most
\* MaxStart nodes (the callbacks grow them to MaxNodes).
NextAnyFair ==
    \/ AppendZero
    \/ AppendOne
    \/ AppendTwo
    \/ StartTraverse({"any"}, MaxStart)
    \/ Visit
    \/ Return

\* The loop of traverse runs on: weak fairness of its steps.
SpecAnyFair ==
    InitWith({"Bfv"}) /\ [][NextAnyFair]_vars /\ WF_vars(Visit) /\ WF_vars(Return)

\* The handles that existed at some point of the traversal: the slots of the
\* node table, which only grows.
EverExisted == 0..(Len(ir.nodes) - 1)

\* C31: forward_traverse and reverse_traverse terminate when the callbacks
\* create finitely many nodes: unless apply aborts, the ready collection
\* empties and traverse returns; the callback is never invoked more often than
\* there are distinct handles that existed at some point of the traversal, and
\* every handle it was given is one of them.
C31_TraverseTerminatesWithinHandleCount ==
    /\ [](pc \in {"traverse", "done", "panic"} =>
             /\ Len(order) <= Cardinality(EverExisted)
             /\ {order[i].node : i \in 1..Len(order)} \subseteq EverExisted)
    /\ (pc = "traverse" ~> (pc = "panic" \/ (pc = "done" /\ ready_nodes = <<>>)))

\* A traversal returned after its callbacks created nodes and it had invoked
\* the callback once for every handle that ever existed.
C31_Witness ==
    /\ pc = "done" /\ callback = "any"
    /\ Len(ir.nodes) > Len(ir0.nodes)
    /\ Len(ir0.nodes) >= 1
    /\ Len(order) = Len(ir.nodes)

(* ----------------------------- apply: aborts ----------------------------- *)

\* The operands a caller may write into a transform: the handle of any slot of
\* the node table, live or vacant (a handle kept from before a removal), or a
\* DeferredIndex.
AnyOperands(c) ==
    {NodeIndex(h) : h \in 0..(Len(c.nodes) - 1)} \cup {DeferredIndex(j) : j \in 0..MaxList}

\* The transforms a caller may push with such operands.
AnyTransforms(c) ==
    {AppendInputCiphertext(0)}
    \cup {AppendNegate(x) : x \in AnyOperands(c)}
    \cup {AppendAdd(x, y) : x \in AnyOperands(c), y \in AnyOperands(c)}
    \cup {RemoveNode(x) : x \in AnyOperands(c)}
    \cup {RemoveEdge(x, y) : x \in AnyOperands(c), y \in AnyOperands(c)}
    \cup {AddEdge(x, y, "LeftOperand") : x \in AnyOperands(c), y \in AnyOperands(c)}

\* The transforms lists of at most k such transforms.
RECURSIVE AnyPushed(_, _)
AnyPushed(c, k) ==
    IF k = 0 THEN {<<>>}
    ELSE LET shorter == AnyPushed(c, k - 1)
         IN shorter \cup {Append(b, t) : b \in {l \in shorter : Len(l) = k - 1},
                                         t \in AnyTransforms(c)}

\* A TransformList built with new and push, its operands any handles, is applied
\* to the circuit built so far.
ApplyAny ==
    /\ pc = "build"
    /\ Len(ir.nodes) <= MaxSeed
    /\ \E transforms \in AnyPushed(ir, MaxList) :
          LET r == apply_list([NewTransformList EXCEPT !.transforms = transforms], ir)
          IN /\ list' = [transforms |-> transforms,
                         inserted_node_ids |-> r.inserted_node_ids]
             /\ ir' = r.ir
             /\ pc' = IF r.panicked THEN "panic" ELSE "applied"
    /\ before' = ir
    /\ UNCHANGED <<travVars, pruneVars, callVars, twinVars, calcVars>>

\* Circuits built with the builders and remove_node, then changed by a
\* TransformList whose operands are any handles.
NextAbort ==
    \/ AppendZero
    \/ AppendOne
    \/ AppendTwo
    \/ Remove
    \/ ApplyAny

SpecAbort == InitWith({"Bfv"}) /\ [][NextAbort]_vars

\* The position (from 1) of the transform apply panicked at: one past the
\* transforms it recorded a result for.
AbortedAt == Len(list.inserted_node_ids) + 1

\* What the transforms before the panicking one leave when applied alone.
BeforeAbort == apply(SubSeq(list.transforms, 1, AbortedAt - 1), before)

\* Why the transform t panics on the state pre: an operand that is a dangling
\* DeferredIndex, a RemoveEdge of an edge that is not there, or an endpoint
\* handle that names no node.
AbortCause(pre, t) ==
    IF \E o \in OperandsOf(t) : materialize_index(pre.inserted_node_ids, o).panicked
    THEN "deferred"
    ELSE IF t.kind = "RemoveEdge" THEN "edge" ELSE "endpoint"

NoParallelEdges(c) ==
    \A i, j \in 1..Len(c.edges) :
        i < j => ~(/\ c.edges[i].source = c.edges[j].source
                   /\ c.edges[i].target = c.edges[j].target)

\* C33: after any sequence of append_* calls, removals and applied transforms
\* the graph has at most one edge for each ordered pair of nodes: an AddEdge on
\* a pair that is already connected replaces the role of the existing edge and
\* adds none, and a two-input node whose second operand equals its first has a
\* single inbound edge, with the role of the second operand.
C33_AtMostOneEdgePerOrderedPair ==
    /\ NoParallelEdges(ir)
    /\ \A e \in Range(ir.edges) :
          contains_node(ir, e.source) /\ contains_node(ir, e.target)
    /\ (pc = "applied" /\ Len(list.transforms) = 1
        /\ list.transforms[1].kind = "AddEdge"
        /\ ~list.transforms[1].x.deferred /\ ~list.transforms[1].y.deferred) =>
          LET t == list.transforms[1]
              old == {e \in Range(before.edges) :
                         e.source = t.x.i /\ e.target = t.y.i}
          IN /\ old # {} => Len(ir.edges) = Len(before.edges)
             /\ old = {} => Len(ir.edges) = Len(before.edges) + 1
             /\ EdgeTriples(ir) =
                   (EdgeTriples(before) \ {<<e.source, e.target, e.weight>> : e \in old})
                   \cup {<<t.x.i, t.y.i, t.weight>>}

\* An AddEdge was applied to the pair joined by the single inbound edge of an
\* Add node both of whose operands are one node: the edge changed its role from
\* RightOperand to LeftOperand and is still the only one.
C33_Witness ==
    /\ pc = "applied" /\ Len(list.transforms) = 1
    /\ list.transforms[1].kind = "AddEdge"
    /\ ~list.transforms[1].x.deferred /\ ~list.transforms[1].y.deferred
    /\ LET x == list.transforms[1].x.i
           y == list.transforms[1].y.i
       IN /\ contains_node(before, y)
          /\ before.nodes[y + 1].tag = "Add"
          /\ {e \in Range(before.edges) : e.target = y}
                = {[source |-> x, target |-> y, weight |-> "RightOperand"]}
          /\ {e \in Range(ir.edges) : e.target = y}
                = {[source |-> x, target |-> y, weight |-> "LeftOperand"]}
          /\ Len(ir.edges) = Len(before.edges)

(* ---------------------------- eq: scheme tag ----------------------------- *)

\* C34: circuit equality ignores the scheme tag: a circuit tagged Bfv compares
\* equal to every circuit with an isomorphic graph that is tagged Ckks or Tfhe.
C34_EqIgnoresSchemeTag ==
    (pc = "called" /\ returned.fn = "eq" /\ returned.kind = "scheme") =>
        /\ ir.scheme = "Bfv"
        /\ returned.other.scheme \in {"Ckks", "Tfhe"}
        /\ Isomorphic(ir, returned.other)
        /\ returned.value = TRUE

\* A Bfv circuit with an edge compared equal to a Tfhe circuit with the same
\* structure under other handles.
C34_Witness ==
    /\ pc = "called" /\ returned.fn = "eq" /\ returned.kind = "scheme"
    /\ returned.other.scheme = "Tfhe"
    /\ returned.other.nodes # ir.nodes
    /\ ir.edges # <<>>
    /\ returned.value

(* ------------------------- builders: acyclicity -------------------------- *)

\* C35: a circuit manipulated only through the append_* builders and
\* remove_node, with operand handles live at call time, is acyclic in every
\* reachable state, also after a freed handle is reused by a later append: the
\* node an append adds has no outgoing edge.
C35_BuildersKeepGraphAcyclic ==
    /\ [](~HasCycle(ir))
    /\ [][\A h \in NodeSet(ir') \ NodeSet(ir) :
             /\ \A e \in Range(ir'.edges) : e.source # h
             /\ \A e \in Range(ir'.edges) :
                   e.target = h => e.source \in NodeSet(ir)]_vars

\* A node appended onto a freed handle depends on a node with a higher handle.
C35_Witness ==
    /\ pc = "build"
    /\ \E e \in Range(ir.edges) : e.target < e.source

\* ---------------------------------------------------------------------------
\* examples/calculator_rational: the two-party calculator
\* ---------------------------------------------------------------------------

\* The most expressions alice sends in one run.
MaxRequests == 2

\* The decimal values typed at the prompt.
Inputs == {"2"}

\* What a value typed at the prompt parses to (str::parse::<f64>).
parse_f64(s) == IF s = "1" THEN 1 ELSE 2

\* enum Operand.
Operand == {"Add", "Sub", "Mul", "Div"}

\* enum Term: Ans, F64(v) and Encrypted(c).
TermAns == [kind |-> "Ans", v |-> 0, c |-> Unset]

TermF64(v) == [kind |-> "F64", v |-> v, c |-> Unset]

TermEncrypted(c) == [kind |-> "Encrypted", v |-> 0, c |-> c]

\* struct Expression.
Expression(left, op, right) == [left |-> left, op |-> op, right |-> right]

\* The lines read at the prompt, already trimmed and split at single spaces.
Lines ==
    {<<"help">>, <<"exit">>, <<"2">>, <<"2", "+">>, <<"2", "%", "2">>,
     <<"ans", "+", "x">>, <<"2", "+", "2", "+", "2">>}
    \cup {<<l, o, r>> : l \in Inputs \cup {"ans"}, o \in {"+", "-", "/", "*"},
                        r \in Inputs \cup {"ans"}}

\* One side of an expression: ans, or a decimal value.
parse_term(s) == IF s = "ans" THEN TermAns ELSE TermF64(parse_f64(s))

\* The operator of an expression.
parse_operand(s) ==
    IF s = "+" THEN "Add"
    ELSE IF s = "-" THEN "Sub"
    ELSE IF s = "/" THEN "Div"
    ELSE "Mul"

\* parse_input: Help, Exit, an Expression, or a parse error.
parse_input(line) ==
    IF line = <<"help">> THEN [kind |-> "Help", val |-> Expression(TermAns, "Add", TermAns)]
    ELSE IF line = <<"exit">> THEN [kind |-> "Exit", val |-> Expression(TermAns, "Add", TermAns)]
    ELSE IF \/ Len(line) < 3
            \/ line[1] \notin Inputs \cup {"ans"}
            \/ line[2] \notin {"+", "-", "/", "*"}
            \/ line[3] \notin Inputs \cup {"ans"}
         THEN [kind |-> "Err", val |-> Expression(TermAns, "Add", TermAns)]
    ELSE [kind |-> "Expression",
          val |-> Expression(parse_term(line[1]), parse_operand(line[2]),
                             parse_term(line[3]))]

\* Runtime::encrypt of a Rational made from a decimal value.
encrypt(v) == Ciphertext(v, 1)

\* encrypt_term: Ans stays Ans, a decimal value is encrypted.
encrypt_term(input) ==
    IF input.kind = "Ans" THEN TermAns ELSE TermEncrypted(encrypt(input.v))

\* The four FHE programs add, sub, mul and div on rationals.
run_program(op, a, b) ==
    IF op = "Add" THEN Ciphertext(a.num * b.den + b.num * a.den, a.den * b.den)
    ELSE IF op = "Sub" THEN Ciphertext(a.num * b.den - b.num * a.den, a.den * b.den)
    ELSE IF op = "Mul" THEN Ciphertext(a.num * b.num, a.den * b.den)
    ELSE Ciphertext(a.num * b.den, a.den * b.num)

\* A match on a term that takes the first saved value for Ans.
operand_of_initial(term, saved) ==
    IF term.kind = "Ans" THEN encrypt(0) ELSE term.c

\* bob's match on a term: Ans is his saved value, Encrypted(c) is c.
operand_of(term, saved) == IF term.kind = "Ans" THEN saved ELSE term.c

\* The process is running: main has neither panicked nor been exited.
Running == mainpc \in {"join_a", "join_b"}

\* A thread whose thread_body returned Err has panicked; its channel ends are
\* dropped.
AliceGone == apc = "panicked"

BobGone == bpc = "panicked"

chanVars == <<params_chan, pub_chan, calc_chan, result_chan>>

histVars == <<sent, received, computed, printed>>

aliceLocals == <<a_expr, a_result>>

bobLocals == <<ans, b_expr, b_c>>

\* thread_body of alice returns Err from the call named.
AliceFails(cause) == apc' = "panicked" /\ aerr' = cause

\* thread_body of bob returns Err from the call named.
BobFails(cause) == bpc' = "panicked" /\ berr' = cause

\* ---- alice ----

\* recv_params.recv()?: the params when there are some, Err when bob is gone and
\* the channel is empty, waiting otherwise.
AliceRecvParams ==
    /\ Running /\ apc = "recv_params"
    /\ IF params_chan # <<>>
       THEN /\ params_chan' = Tail(params_chan)
            /\ apc' = "runtime_new"
            /\ aerr' = aerr
       ELSE /\ BobGone
            /\ AliceFails("recv_params")
            /\ params_chan' = params_chan
    /\ UNCHANGED <<pub_chan, calc_chan, result_chan, bpc, berr, mainpc, a_expr,
                   a_result, bobLocals, histVars, circuitVars>>

\* Runtime::new(&params)?
AliceRuntimeNew ==
    /\ Running /\ apc = "runtime_new"
    /\ \E ok \in BOOLEAN :
         IF ok THEN apc' = "generate_keys" /\ aerr' = aerr
         ELSE AliceFails("runtime_new")
    /\ UNCHANGED <<chanVars, bpc, berr, mainpc, a_expr, a_result, bobLocals,
                   histVars, circuitVars>>

\* runtime.generate_keys()?
AliceGenerateKeys ==
    /\ Running /\ apc = "generate_keys"
    /\ \E ok \in BOOLEAN :
         IF ok THEN apc' = "send_pub" /\ aerr' = aerr
         ELSE AliceFails("generate_keys")
    /\ UNCHANGED <<chanVars, bpc, berr, mainpc, a_expr, a_result, bobLocals,
                   histVars, circuitVars>>

\* send_pub.send(public_key.clone())?: Err when bob is gone.
AliceSendPub ==
    /\ Running /\ apc = "send_pub"
    /\ IF BobGone
       THEN AliceFails("send_pub") /\ pub_chan' = pub_chan
       ELSE /\ pub_chan' = Append(pub_chan, "public_key")
            /\ apc' = "prompt"
            /\ aerr' = aerr
    /\ UNCHANGED <<params_chan, calc_chan, result_chan, bpc, berr, mainpc,
                   a_expr, a_result, bobLocals, histVars, circuitVars>>

\* The head of the loop: flush, read a line, parse it, encrypt both terms.
\* help and a parse error continue; exit ends the whole process.
AlicePrompt ==
    /\ Running /\ apc = "prompt"
    /\ \/ /\ AliceFails("io")
          /\ UNCHANGED <<mainpc, a_expr>>
       \/ \E line \in Lines :
            /\ parse_input(line).kind = "Exit"
            /\ mainpc' = "exited"
            /\ UNCHANGED <<apc, aerr, a_expr>>
       \/ \E line \in Lines :
            /\ parse_input(line).kind \in {"Help", "Err"}
            /\ UNCHANGED <<apc, aerr, mainpc, a_expr>>
       \/ \E line \in Lines :
            /\ parse_input(line).kind = "Expression"
            /\ Len(sent) < MaxRequests
            /\ \/ /\ apc' = "send_calc"
                  /\ a_expr' = <<Expression(encrypt_term(parse_input(line).val.left),
                                            parse_input(line).val.op,
                                            encrypt_term(parse_input(line).val.right))>>
                  /\ UNCHANGED <<aerr, mainpc>>
               \/ /\ "F64" \in {parse_input(line).val.left.kind,
                                parse_input(line).val.right.kind}
                  /\ AliceFails("encrypt")
                  /\ UNCHANGED <<mainpc, a_expr>>
    /\ UNCHANGED <<chanVars, bpc, berr, a_result, bobLocals, histVars,
                   circuitVars>>

\* A send after which alice goes back to the prompt without awaiting the
\* result.
AliceSendCalc_not_waiting ==
    /\ Running /\ apc = "send_calc"
    /\ IF BobGone
       THEN /\ AliceFails("send_calc")
            /\ UNCHANGED <<calc_chan, sent, a_expr>>
       ELSE /\ calc_chan' = Append(calc_chan, a_expr[1])
            /\ sent' = Append(sent, a_expr[1])
            /\ a_expr' = <<>>
            /\ apc' = "prompt"
            /\ aerr' = aerr
    /\ UNCHANGED <<params_chan, pub_chan, result_chan, bpc, berr, mainpc,
                   a_result, bobLocals, received, computed, printed,
                   circuitVars>>

\* send_calc.send(Expression { .. })?: Err when bob is gone.
AliceSendCalc ==
    /\ Running /\ apc = "send_calc"
    /\ IF BobGone
       THEN /\ AliceFails("send_calc")
            /\ UNCHANGED <<calc_chan, sent, a_expr>>
       ELSE /\ calc_chan' = Append(calc_chan, a_expr[1])
            /\ sent' = Append(sent, a_expr[1])
            /\ a_expr' = <<>>
            /\ apc' = "recv_res"
            /\ aerr' = aerr
    /\ UNCHANGED <<params_chan, pub_chan, result_chan, bpc, berr, mainpc,
                   a_result, bobLocals, received, computed, printed, circuitVars>>

\* recv_res.recv()?
AliceRecvResult ==
    /\ Running /\ apc = "recv_res"
    /\ IF result_chan # <<>>
       THEN /\ a_result' = Head(result_chan)
            /\ received' = Append(received, Head(result_chan))
            /\ result_chan' = Tail(result_chan)
            /\ apc' = "decrypt"
            /\ aerr' = aerr
       ELSE /\ BobGone
            /\ AliceFails("recv_res")
            /\ UNCHANGED <<a_result, received, result_chan>>
    /\ UNCHANGED <<params_chan, pub_chan, calc_chan, bpc, berr, mainpc, a_expr,
                   bobLocals, sent, computed, printed, circuitVars>>

\* runtime.decrypt(&result, &private_key): the value is printed, too much noise
\* is reported and the loop continues, any other error ends the thread.
AliceDecrypt ==
    /\ Running /\ apc = "decrypt"
    /\ \E outcome \in {"Ok", "TooMuchNoise", "Err"} :
         IF outcome = "Ok"
         THEN apc' = "prompt" /\ aerr' = aerr /\ printed' = Append(printed, a_result)
         ELSE IF outcome = "TooMuchNoise"
         THEN apc' = "prompt" /\ aerr' = aerr /\ printed' = printed
         ELSE AliceFails("decrypt") /\ printed' = printed
    /\ UNCHANGED <<chanVars, bpc, berr, mainpc, a_expr, a_result, bobLocals,
                   sent, received, computed, circuitVars>>

\* ---- bob ----

\* A bob who waits for the public key before he sends the params.
BobCompile_then_recv_pub ==
    /\ Running /\ bpc = "compile"
    /\ \E ok \in BOOLEAN :
         IF ok THEN bpc' = "recv_pub" /\ berr' = berr
         ELSE BobFails("compile")
    /\ UNCHANGED <<chanVars, apc, aerr, mainpc, a_expr, a_result, bobLocals,
                   histVars, circuitVars>>

\* compile_fhe_programs()?
BobCompile ==
    /\ Running /\ bpc = "compile"
    /\ \E ok \in BOOLEAN :
         IF ok THEN bpc' = "send_params" /\ berr' = berr
         ELSE BobFails("compile")
    /\ UNCHANGED <<chanVars, apc, aerr, mainpc, a_expr, a_result, bobLocals,
                   histVars, circuitVars>>

\* send_params.send(add.metadata.params.clone())?: Err when alice is gone.
BobSendParams ==
    /\ Running /\ bpc = "send_params"
    /\ IF AliceGone
       THEN BobFails("send_params") /\ params_chan' = params_chan
       ELSE /\ params_chan' = Append(params_chan, "params")
            /\ bpc' = "recv_pub"
            /\ berr' = berr
    /\ UNCHANGED <<pub_chan, calc_chan, result_chan, apc, aerr, mainpc, a_expr,
                   a_result, bobLocals, histVars, circuitVars>>

\* recv_pub.recv()?
BobRecvPub ==
    /\ Running /\ bpc = "recv_pub"
    /\ IF pub_chan # <<>>
       THEN /\ pub_chan' = Tail(pub_chan)
            /\ bpc' = "runtime_new"
            /\ berr' = berr
       ELSE /\ AliceGone
            /\ BobFails("recv_pub")
            /\ pub_chan' = pub_chan
    /\ UNCHANGED <<params_chan, calc_chan, result_chan, apc, aerr, mainpc,
                   a_expr, a_result, bobLocals, histVars, circuitVars>>

\* Runtime::new(&add.metadata.params)?
BobRuntimeNew ==
    /\ Running /\ bpc = "runtime_new"
    /\ \E ok \in BOOLEAN :
         IF ok THEN bpc' = "encrypt_zero" /\ berr' = berr
         ELSE BobFails("runtime_new")
    /\ UNCHANGED <<chanVars, apc, aerr, mainpc, a_expr, a_result, bobLocals,
                   histVars, circuitVars>>

\* let mut ans = runtime.encrypt(Rational::try_from(0f64)?, &public_key)?
BobEncryptZero ==
    /\ Running /\ bpc = "encrypt_zero"
    /\ \E ok \in BOOLEAN :
         IF ok THEN bpc' = "recv_calc" /\ berr' = berr /\ ans' = encrypt(0)
         ELSE BobFails("encrypt_zero") /\ ans' = ans
    /\ UNCHANGED <<chanVars, apc, aerr, mainpc, a_expr, a_result, b_expr, b_c,
                   histVars, circuitVars>>

\* let Expression { left, right, op } = recv_calc.recv()?
BobRecvCalc ==
    /\ Running /\ bpc = "recv_calc"
    /\ IF calc_chan # <<>>
       THEN /\ b_expr' = <<Head(calc_chan)>>
            /\ calc_chan' = Tail(calc_chan)
            /\ bpc' = "run"
            /\ berr' = berr
       ELSE /\ AliceGone
            /\ BobFails("recv_calc")
            /\ UNCHANGED <<calc_chan, b_expr>>
    /\ UNCHANGED <<params_chan, pub_chan, result_chan, apc, aerr, mainpc, ans,
                   a_expr, a_result, b_c, histVars, circuitVars>>

\* Both operands are matched (Ans is a clone of ans), the program of the
\* operator is run, its one result is moved out as c and ans = c.clone().
BobRun ==
    /\ Running /\ bpc = "run"
    /\ IF "F64" \in {b_expr[1].left.kind, b_expr[1].right.kind}
       THEN BobFails("plaintext") /\ UNCHANGED <<ans, b_c, computed>>
       ELSE \E ok \in BOOLEAN :
              IF ok
              THEN /\ b_c' = run_program(b_expr[1].op,
                                         operand_of(b_expr[1].left, ans),
                                         operand_of(b_expr[1].right, ans))
                   /\ ans' = b_c'
                   /\ computed' = Append(computed, b_c')
                   /\ bpc' = "send_res"
                   /\ berr' = berr
              ELSE BobFails("run") /\ UNCHANGED <<ans, b_c, computed>>
    /\ UNCHANGED <<chanVars, apc, aerr, mainpc, a_expr, a_result, b_expr, sent,
                   received, printed, circuitVars>>

\* send_res.send(c)?: Err when alice is gone.
BobSendResult ==
    /\ Running /\ bpc = "send_res"
    /\ IF AliceGone
       THEN BobFails("send_res") /\ result_chan' = result_chan
       ELSE /\ result_chan' = Append(result_chan, b_c)
            /\ bpc' = "recv_calc"
            /\ berr' = berr
    /\ UNCHANGED <<params_chan, pub_chan, calc_chan, apc, aerr, mainpc,
                   a_expr, a_result, bobLocals, histVars, circuitVars>>

\* ---- main ----

\* a.join().unwrap(): alice's thread ends only by a panic (its loop has no
\* break and thread_body no Ok), and then the unwrap panics in main, which ends
\* the process; b.join() is never reached.
MainJoin ==
    /\ mainpc = "join_a"
    /\ AliceGone
    /\ mainpc' = "panicked"
    /\ UNCHANGED <<chanVars, apc, aerr, bpc, berr, a_expr, a_result, bobLocals,
                   histVars, circuitVars>>

\* The steps alice takes by herself; at the prompt she waits for a line.
AliceStep ==
    \/ AliceRecvParams
    \/ AliceRuntimeNew
    \/ AliceGenerateKeys
    \/ AliceSendPub
    \/ AliceSendCalc
    \/ AliceRecvResult
    \/ AliceDecrypt

\* The steps bob takes.
BobStep ==
    \/ BobCompile
    \/ BobSendParams
    \/ BobRecvPub
    \/ BobRuntimeNew
    \/ BobEncryptZero
    \/ BobRecvCalc
    \/ BobRun
    \/ BobSendResult

NextCalc ==
    \/ AliceRecvParams
    \/ AliceRuntimeNew
    \/ AliceGenerateKeys
    \/ AliceSendPub
    \/ AlicePrompt
    \/ AliceSendCalc
    \/ AliceRecvResult
    \/ AliceDecrypt
    \/ BobCompile
    \/ BobSendParams
    \/ BobRecvPub
    \/ BobRuntimeNew
    \/ BobEncryptZero
    \/ BobRecvCalc
    \/ BobRun
    \/ BobSendResult
    \/ MainJoin

\* The two threads and main are scheduled: each takes its next step when it
\* can. Nothing makes a line arrive at the prompt.
SpecCalc ==
    /\ InitWith({"Bfv"})
    /\ [][NextCalc]_vars
    /\ WF_vars(AliceStep)
    /\ WF_vars(BobStep)
    /\ WF_vars(MainJoin)

\* ---------------------------------------------------------------------------
\* calculator: bob's saved value
\* ---------------------------------------------------------------------------

\* Where alice and bob are once in their loops.
AliceLoop == {"prompt", "send_calc", "recv_res", "decrypt"}

BobLoop == {"recv_calc", "run", "send_res"}

\* The value ans holds just before the i-th expression is computed.
SavedBefore(i) == IF i = 1 THEN encrypt(0) ELSE computed[i - 1]

\* What the i-th expression alice sent comes to, an Ans operand standing for the
\* value saved just before.
Answer(i) ==
    run_program(sent[i].op,
                IF sent[i].left = TermAns THEN SavedBefore(i) ELSE sent[i].left.c,
                IF sent[i].right = TermAns THEN SavedBefore(i) ELSE sent[i].right.c)

\* C36: bob's ans is an encryption of 0 from the start of his loop until the
\* first expression is computed, and from then on the most recently computed
\* result; every computed result is its expression's value with Ans standing
\* for the value ans held just before; and ans already holds a result when bob
\* is about to send it and while it is in the result channel, whatever alice's
\* decryptions came to.
C36_AnsIsZeroThenLastComputed ==
    /\ (bpc \in BobLoop /\ computed = <<>>) => ans = encrypt(0)
    /\ computed # <<>> => ans = computed[Len(computed)]
    /\ Len(computed) <= Len(sent)
    /\ \A i \in 1..Len(computed) : computed[i] = Answer(i)
    /\ bpc = "send_res" => (b_c = ans /\ computed # <<>>)
    /\ result_chan # <<>> => ans = Head(result_chan)

\* Two results computed, the second from an Ans operand, ans holding the second
\* and no result decrypted by alice.
C36_Witness ==
    /\ computed = <<Ciphertext(4, 1), Ciphertext(8, 1)>>
    /\ sent[2].left.kind = "Ans"
    /\ ans = Ciphertext(8, 1)
    /\ bpc = "send_res"
    /\ Len(received) = 1
    /\ printed = <<>>

\* ---------------------------------------------------------------------------
\* calculator: one request at a time
\* ---------------------------------------------------------------------------

\* The expressions bob has taken from the calc channel, and the results he has
\* put into the result channel.
ExpressionsTaken == Len(sent) - Len(calc_chan)

ResultsSent == Len(received) + Len(result_chan)

\* C38: alice has received a result for every expression she sent, except the
\* one she is waiting on, so she sends only after the previous result arrived;
\* bob has sent one result for every expression he took, except the one he is
\* working on; at most one message is in the calc and result channels
\* together; and the i-th result received is the answer to the i-th expression
\* sent.
C38_OneRequestInFlightAnsweredInOrder ==
    /\ Len(calc_chan) + Len(result_chan) <= 1
    /\ apc \in {"prompt", "send_calc", "decrypt"} => Len(sent) = Len(received)
    /\ apc = "recv_res" => Len(sent) = Len(received) + 1
    /\ Len(sent) - Len(received) \in {0, 1}
    /\ bpc = "recv_calc" => ResultsSent = ExpressionsTaken
    /\ bpc \in {"run", "send_res"} => ResultsSent + 1 = ExpressionsTaken
    /\ ExpressionsTaken - ResultsSent \in {0, 1}
    /\ \A i \in 1..Len(received) : received[i] = Answer(i)

\* Two expressions sent and both results received, the second differing from
\* the first and alice back at the prompt.
C38_Witness ==
    /\ Len(sent) = 2
    /\ Len(received) = 2
    /\ received[1] # received[2]
    /\ received[2] = Answer(2)
    /\ apc = "prompt"
    /\ bpc = "recv_calc"

\* ---------------------------------------------------------------------------
\* calculator: the startup handshake
\* ---------------------------------------------------------------------------

\* A call of the startup failed: bob's compilation, either runtime's creation,
\* alice's key generation or bob's first encryption.
AliceSetupFailed == aerr \in {"runtime_new", "generate_keys"}

BobSetupFailed == berr \in {"compile", "runtime_new", "encrypt_zero"}

\* A thread waiting in the handshake for a message that can no longer come.
HandshakeDeadlock ==
    \/ /\ apc = "recv_params" /\ params_chan = <<>>
       /\ bpc \notin {"compile", "send_params", "panicked"}
    \/ /\ bpc = "recv_pub" /\ pub_chan = <<>>
       /\ apc \notin {"recv_params", "runtime_new", "generate_keys",
                       "send_pub", "panicked"}

====
